---- MODULE Spec2Model ----
(***************************************************************************)
(* Model of the CaseWare recovery pipeline:                                *)
(*   tools/wpfile/caseware_universal_extractor.py  (CaseWareExtractor)     *)
(*   tools/wpfile/caseware_stream_extractor.py     (CaseWareStreamExtractor)*)
(*   server.py                                     (caseware_extract_file) *)
(*                                                                         *)
(* Byte buffers are modelled byte for byte.  A buffer is a record          *)
(* [len, nz]: its length and the function from the offsets (0-based) of    *)
(* its nonzero bytes to their values; every other byte is 0.  The          *)
(* representation is canonical, so record equality is byte equality.       *)
(***************************************************************************)
EXTENDS Integers, Sequences, FiniteSets, TLC

(***************************************************************************)
(* Bytes and buffers                                                       *)
(***************************************************************************)
Min(a, b) == IF a <= b THEN a ELSE b
Max(a, b) == IF a >= b THEN a ELSE b

EmptyMap == [i \in {} |-> 0]
EmptyBuf == [len |-> 0, nz |-> EmptyMap]

\* data[i]
Byte(b, i) == IF i \in DOMAIN b.nz THEN b.nz[i] ELSE 0

\* data[s:e] with Python's clamping of both ends to the length (s, e >= 0)
Slice(b, s, e) ==
    LET lo == Min(s, b.len)
        hi == Max(lo, Min(e, b.len))
        keep == {k \in DOMAIN b.nz : k >= lo /\ k < hi}
    IN  [len |-> hi - lo,
         nz  |-> [i \in {k - lo : k \in keep} |-> b.nz[i + lo]]]

\* a + b on bytes
Cat(a, b) ==
    [len |-> a.len + b.len,
     nz  |-> [i \in (DOMAIN a.nz) \cup {k + a.len : k \in DOMAIN b.nz} |->
                IF i < a.len THEN a.nz[i] ELSE b.nz[i - a.len]]]

\* the buffer holding the bytes of a sequence
FromSeq(s) ==
    [len |-> Len(s),
     nz  |-> [i \in {k - 1 : k \in {j \in 1..Len(s) : s[j] # 0}} |-> s[i + 1]]]

\* the bytes of a (short) buffer as a sequence
ToSeq(b) == [k \in 1..b.len |-> Byte(b, k - 1)]

\* n zero bytes
Zeros(n) == [len |-> n, nz |-> EmptyMap]

RECURSIVE CatAll(_)
CatAll(bs) == IF bs = <<>> THEN EmptyBuf ELSE Cat(Head(bs), CatAll(Tail(bs)))

\* data[i:i+Len(pat)] == pat
MatchAt(b, i, pat) ==
    /\ i + Len(pat) <= b.len
    /\ \A k \in 1..Len(pat) : Byte(b, i + k - 1) = pat[k]

\* data.startswith(pat)
StartsWith(b, pat) == MatchAt(b, 0, pat)

\* data.find(pat, from): the least offset >= from where pat occurs, or -1.
\* Every pattern searched for starts with a nonzero byte.
Find(b, pat, from) ==
    LET hits == {p \in DOMAIN b.nz : p >= from /\ MatchAt(b, p, pat)}
    IN  IF hits = {} THEN -1 ELSE CHOOSE p \in hits : \A q \in hits : p <= q

(***************************************************************************)
(* struct.unpack of little-endian fields.  Python integers are unbounded;  *)
(* here a 32-bit or 64-bit field saturates at Huge, which is larger than   *)
(* every buffer length and every offset the model computes, so each        *)
(* comparison of the code against len(data) has the code's outcome.        *)
(* The reserved 32-bit marker values are compared bytewise (Word).         *)
(***************************************************************************)
Huge == 1073741824

U16(b, i) == Byte(b, i) + 256 * Byte(b, i + 1)

U32(b, i) ==
    IF Byte(b, i + 3) >= 64 THEN Huge
    ELSE Byte(b, i) + 256 * Byte(b, i + 1) + 65536 * Byte(b, i + 2)
         + 16777216 * Byte(b, i + 3)

U64(b, i) ==
    IF \E k \in 4..7 : Byte(b, i + k) # 0 THEN Huge ELSE U32(b, i)

\* saturating sum and product of non-negative values
SatAdd(x, y) == IF x >= Huge \/ y >= Huge \/ x + y >= Huge THEN Huge ELSE x + y
SatMul(x, y) ==
    IF x = 0 \/ y = 0 THEN 0
    ELSE IF x >= Huge \/ y >= Huge \/ x > Huge \div y THEN Huge
    ELSE Min(Huge, x * y)

\* the 4 bytes at offset i, as stored
Word(b, i) == <<Byte(b, i), Byte(b, i + 1), Byte(b, i + 2), Byte(b, i + 3)>>

LE16(n) == <<n % 256, (n \div 256) % 256>>
LE32(n) == <<n % 256, (n \div 256) % 256, (n \div 65536) % 256, (n \div 16777216) % 256>>

(***************************************************************************)
(* zlib.crc32: the reflected CRC-32 (polynomial EDB88320), computed bit by *)
(* bit.  The 32-bit register is the pair <<hi, lo>> of its 16-bit halves.  *)
(***************************************************************************)
PolyHi == 60856     \* EDB8
PolyLo == 33568     \* 8320
Ones16 == 65535

\* the bitwise exclusive or of two n-bit values
RECURSIVE XorN(_, _, _)
XorN(x, y, n) ==
    IF n = 0 THEN 0 ELSE ((x + y) % 2) + 2 * XorN(x \div 2, y \div 2, n - 1)

\* one shift of the register
CrcRound(c) ==
    LET hi == c[1] \div 2
        lo == (c[2] \div 2) + 32768 * (c[1] % 2)
    IN  IF c[2] % 2 = 1 THEN <<XorN(hi, PolyHi, 16), XorN(lo, PolyLo, 16)>>
        ELSE <<hi, lo>>

RECURSIVE CrcRounds(_, _)
CrcRounds(c, n) ==
    IF n = 0 THEN c
    ELSE LET r == CrcRound(c) IN IF r[1] >= 0 THEN CrcRounds(r, n - 1) ELSE r

\* the register after the bytes of b from offset i on
RECURSIVE CrcBytes(_, _, _)
CrcBytes(c, b, i) ==
    IF i >= b.len THEN c
    ELSE LET r == CrcRounds(<<c[1], XorN(c[2], Byte(b, i), 16)>>, 8)
         IN  IF r[1] >= 0 THEN CrcBytes(r, b, i + 1) ELSE r

\* zlib.crc32(data) & 0xffffffff, as the 4 little-endian bytes of the value
Crc32(b) ==
    LET c  == CrcBytes(<<Ones16, Ones16>>, b, 0)
        hi == Ones16 - c[1]
        lo == Ones16 - c[2]
    IN  <<lo % 256, lo \div 256, hi % 256, hi \div 256>>

ZeroWord == <<0, 0, 0, 0>>

(***************************************************************************)
(* zlib.decompress(payload, -15): raw inflate.  Stored blocks (BTYPE 00)   *)
(* are decoded; the reserved block type (BTYPE 11) and a stream that ends  *)
(* before its final block are errors.  Huffman-coded blocks (BTYPE 01, 10) *)
(* are outside the inputs the model draws.  Bytes                          *)
(* after the final block are ignored, as zlib.decompress ignores them.     *)
(* The result is [ok, out].                                                *)
(***************************************************************************)
InflateFail == [ok |-> FALSE, out |-> EmptyBuf]

RECURSIVE InflateFrom(_, _, _)
InflateFrom(b, pos, acc) ==
    IF pos >= b.len THEN InflateFail                       \* truncated stream
    ELSE LET hdr   == Byte(b, pos)
             final == hdr % 2
             btype == (hdr \div 2) % 4
         IN  IF btype # 0 THEN InflateFail                 \* invalid block type
             ELSE IF pos + 5 > b.len THEN InflateFail
             ELSE LET n  == U16(b, pos + 1)
                      nn == U16(b, pos + 3)
                  IN  IF n + nn # 65535 THEN InflateFail   \* invalid stored block lengths
                      ELSE IF pos + 5 + n > b.len THEN InflateFail
                      ELSE LET acc2 == Cat(acc, Slice(b, pos + 5, pos + 5 + n))
                           IN  IF final = 1 THEN [ok |-> TRUE, out |-> acc2]
                               ELSE InflateFrom(b, pos + 5 + n, acc2)

Inflate(b) == InflateFrom(b, 0, EmptyBuf)

(***************************************************************************)
(* lzma.decompress(payload, format=FORMAT_RAW, filters=[LZMA2]).  A raw    *)
(* LZMA2 stream is a sequence of chunks: control byte 0 ends the stream,   *)
(* 1 is an uncompressed chunk that resets the dictionary, 2 an             *)
(* uncompressed chunk that does not (invalid as the first chunk), 3..127   *)
(* are invalid.  LZMA-coded chunks (control >= 128) are outside the inputs *)
(* the model draws.  A chunk is: control, size-1 as 2 big-endian bytes,    *)
(* then the bytes.                                                         *)
(***************************************************************************)
\* one stream from pos: st is "eof" (end marker read), "short" (the data
\* ended first) or "error" (corrupt input)
RECURSIVE Lzma2Stream(_, _, _, _)
Lzma2Stream(b, pos, acc, first) ==
    IF pos >= b.len THEN [st |-> "short", out |-> acc, next |-> pos]
    ELSE LET c == Byte(b, pos)
         IN  IF c = 0 THEN [st |-> "eof", out |-> acc, next |-> pos + 1]
             ELSE IF c = 1 \/ (c = 2 /\ ~first)
             THEN IF pos + 3 > b.len THEN [st |-> "short", out |-> acc, next |-> b.len]
                  ELSE LET n == 256 * Byte(b, pos + 1) + Byte(b, pos + 2) + 1
                       IN  IF pos + 3 + n > b.len
                           THEN [st |-> "short", out |-> acc, next |-> b.len]
                           ELSE Lzma2Stream(b, pos + 3 + n,
                                            Cat(acc, Slice(b, pos + 3, pos + 3 + n)), FALSE)
             ELSE [st |-> "error", out |-> acc, next |-> pos]

\* lzma.decompress: streams are decoded one after another; leftover bytes
\* that are not a stream are ignored once a stream was decoded; a stream
\* without its end marker is an error.  The result is [ok, out].
RECURSIVE LzmaDecompressFrom(_, _, _, _)
LzmaDecompressFrom(b, pos, acc, any) ==
    LET r == Lzma2Stream(b, pos, EmptyBuf, TRUE)
    IN  IF r.st = "error"
        THEN IF any THEN [ok |-> TRUE, out |-> acc] ELSE [ok |-> FALSE, out |-> EmptyBuf]
        ELSE IF r.st = "short" THEN [ok |-> FALSE, out |-> EmptyBuf]
        ELSE IF r.next >= b.len THEN [ok |-> TRUE, out |-> Cat(acc, r.out)]
        ELSE LzmaDecompressFrom(b, r.next, Cat(acc, r.out), TRUE)

LzmaDecompress(b) == LzmaDecompressFrom(b, 0, EmptyBuf, FALSE)

CaseWareMarker == <<12, 0, 0, 0>>

\* the output of a decompression r, or else the bytes given
OrElse(r, otherwise) == IF r.ok THEN r.out ELSE otherwise

\* (mutant) the stripped payload, not the input, is returned when decoding fails
DecompressStripped(d) ==
    IF StartsWith(d, CaseWareMarker)
    THEN OrElse(LzmaDecompress(Slice(d, 12, d.len)), Slice(d, 12, d.len))
    ELSE OrElse(LzmaDecompress(d), d)

\* (mutant) the 12-byte header is not skipped
DecompressWhole(d) == OrElse(LzmaDecompress(d), d)

\* CaseWareExtractor.decompress_caseware_file
decompress_caseware_file(d) ==
    OrElse(LzmaDecompress(IF StartsWith(d, CaseWareMarker) THEN Slice(d, 12, d.len) ELSE d),
           d)


(***************************************************************************)
(* File names and the output directory.  A file name is the sequence of    *)
(* code points of the decoded name.  The file system below the output      *)
(* directory of one archive is [files, dirs]: the function from the paths  *)
(* written to their contents, and the directories created.  A path is the  *)
(* sequence of its components; paths are relative to output_path, and a    *)
(* path that leaves output_path keeps its ".." components.  os.sep is "/". *)
(***************************************************************************)
Slash     == 47
Backslash == 92
Dot       == 46
ReplacementChar == 65533

\* bytes.decode('utf-8', errors='replace') on ASCII bytes and on bytes that
\* start no UTF-8 sequence (the names the model draws hold no others)
DecodeUtf8(b) == [k \in 1..b.len |->
                    IF Byte(b, k - 1) < 128 THEN Byte(b, k - 1) ELSE ReplacementChar]

\* filename.replace('\\', os.sep)
ReplaceBackslash(name) == [k \in 1..Len(name) |-> IF name[k] = Backslash THEN Slash ELSE name[k]]

\* the components of a path string, as pathlib keeps them: empty components
\* and "." are dropped
RECURSIVE SplitPath(_, _, _)
SplitPath(name, cur, acc) ==
    LET push == IF cur = <<>> \/ cur = <<Dot>> THEN acc ELSE Append(acc, cur)
    IN  IF name = <<>> THEN push
        ELSE IF Head(name) = Slash THEN SplitPath(Tail(name), <<>>, push)
        ELSE SplitPath(Tail(name), Append(cur, Head(name)), acc)

DotDot == <<Dot, Dot>>

\* output_path / filename.replace('\\', os.sep): abs is set for a name that
\* starts with the separator (pathlib then drops output_path altogether)
MemberPath(name) ==
    LET n == ReplaceBackslash(name)
    IN  [abs   |-> n # <<>> /\ Head(n) = Slash,
         comps |-> SplitPath(n, <<>>, <<>>)]

\* the depth below output_path after each prefix of the components
RECURSIVE DepthAfter(_, _)
DepthAfter(comps, k) ==
    IF k = 0 THEN 0
    ELSE DepthAfter(comps, k - 1) + (IF comps[k] = DotDot THEN -1 ELSE 1)

\* the path names a place outside output_path
Escapes(path) ==
    \/ path.abs
    \/ \E k \in 1..Len(path.comps) : DepthAfter(path.comps, k) < 0

Prefixes(comps) == {SubSeq(comps, 1, k) : k \in 1..(Len(comps) - 1)}

EmptyFs == [files |-> [p \in {} |-> EmptyBuf], dirs |-> {}]

\* file_path.parent.mkdir(parents=True, exist_ok=True) raises when a parent
\* is an existing file
MkdirFails(f, path) == \E q \in Prefixes(path.comps) :
                           [abs |-> path.abs, comps |-> q] \in DOMAIN f.files

\* open(file_path, 'wb') raises when the target is a directory: output_path
\* itself (an empty name), a directory created before, or a path ending in ".."
OpenFails(f, path) ==
    \/ path.comps = <<>>
    \/ path.comps[Len(path.comps)] = DotDot
    \/ path \in f.dirs

\* the file system after mkdir of the parents and the write of content
WriteFile(f, path, content) ==
    [files |-> [p \in (DOMAIN f.files) \cup {path} |->
                  IF p = path THEN content ELSE f.files[p]],
     dirs  |-> f.dirs \cup {[abs |-> path.abs, comps |-> q] : q \in Prefixes(path.comps)}]

\* the file system after mkdir of the parents alone (the open then failed)
MkdirOnly(f, path) ==
    [f EXCEPT !.dirs = @ \cup {[abs |-> path.abs, comps |-> q] : q \in Prefixes(path.comps)}]


(***************************************************************************)
(* CaseWareExtractor.verify_checksum.  The state it changes is the pair    *)
(* [stats, log] (self.stats, self.extraction_log).  zlib.crc32 raises on   *)
(* no bytes object, so the except branch (checksum_warnings) never runs.   *)
(***************************************************************************)
verify_checksum(st, file_data, expected_crc32, filename) ==
    IF Crc32(file_data) # expected_crc32
    THEN [ok    |-> FALSE,
          stats |-> [st.stats EXCEPT !.checksum_errors = @ + 1],
          log   |-> Append(st.log, [kind |-> "CHECKSUM_ERROR", name |-> filename])]
    ELSE [ok |-> TRUE, stats |-> st.stats, log |-> st.log]

(***************************************************************************)
(* CaseWareExtractor.extract_damaged_zip: one iteration of the scan loop   *)
(* at a local-file-header signature.                                       *)
(***************************************************************************)
LocalSig == <<80, 75, 3, 4>>
HeaderLen == 30
MaxNameLen == 1000
MaxExtraLen == 50000
MethodDeflate == 8
MethodLzma == 14

\* struct.unpack('<4sBB4H3I2H', data[offset:offset+30])
Header(d, o) ==
    [method     |-> U16(d, o + 8),
     crc32      |-> Word(d, o + 14),
     comp_size  |-> U32(d, o + 18),
     uncomp_size|-> U32(d, o + 22),
     name_len   |-> U16(d, o + 26),
     extra_len  |-> U16(d, o + 28)]

\* the loop condition: while offset < len(data) - 30
ScanCond(d, o) == o < d.len - HeaderLen

\* the sanity bounds of the header
HeaderRejected(h) == h.name_len > MaxNameLen \/ h.extra_len > MaxExtraLen

\* (mutant) the cursor moves past the whole of a rejected header
RejectPastHeader(o) == o + HeaderLen

\* (mutant) the cursor moves one byte past a rejected header
RejectRetry(o) == o + 1

\* the cursor after a rejected header
RejectAdvance(o) == o + 4

\* (mutant) the cursor moves one byte after an exception
ExceptionRetry(o) == o + 1

\* the cursor after an exception in the member's iteration
ExceptionAdvance(o) == o + 4

\* (mutant) every payload is written as stored
StoredOnly(method, payload) == payload

\* the bytes written for the member: the payload after decompression by method
Decompressed(method, payload) ==
    IF method = MethodDeflate
    THEN OrElse(Inflate(payload), payload)
    ELSE IF method = MethodLzma THEN decompress_caseware_file(payload)
    ELSE payload

\* whether the member's checksum is verified
ShouldVerify(crc32, file_data) == crc32 # ZeroWord /\ file_data.len > 0

\* The iteration at a signature.  st is [stats, log, fs]; writeFault says
\* that the environment fails the write.  kind is the way the iteration
\* ends: "reject" (sanity bounds), "break" (truncated), "extracted", or
\* "exception" (the write raised).
StepResult(kind, o, st, filename, verified, content) ==
    [kind |-> kind, offset |-> o, stats |-> st.stats, log |-> st.log, fs |-> st.fs,
     name |-> filename, verified |-> verified, content |-> content]

\* the write of file_data to path, after the checksum was dealt with (st2)
MemberWrite(o, data_end, st2, writeFault, filename, path, file_data, verified) ==
    IF MkdirFails(st2.fs, path)
    THEN StepResult("exception", ExceptionAdvance(o), st2, filename, verified, EmptyBuf)
    ELSE IF OpenFails(st2.fs, path) \/ writeFault
    THEN StepResult("exception", ExceptionAdvance(o),
                    [st2 EXCEPT !.fs = MkdirOnly(st2.fs, path)], filename, verified, EmptyBuf)
    ELSE StepResult("extracted", data_end,
                    [st2 EXCEPT !.fs = WriteFile(st2.fs, path, file_data)],
                    filename, verified, file_data)

\* the state after the checksum of the member was dealt with
AfterChecksum(st, v, filename) ==
    [stats |-> v.stats,
     log   |-> IF v.ok THEN v.log
               ELSE Append(v.log, [kind |-> "EXTRACTED_WITH_CHECKSUM_ERROR",
                                   name |-> filename]),
     fs    |-> st.fs]

\* the member's bytes are decompressed (file_data): checksum, then write
MemberData(o, data_end, st, writeFault, crc32, filename, file_data) ==
    MemberWrite(o, data_end,
                AfterChecksum(st,
                              IF ShouldVerify(crc32, file_data)
                              THEN verify_checksum(st, file_data, crc32, filename)
                              ELSE [ok |-> TRUE, stats |-> st.stats, log |-> st.log],
                              filename),
                writeFault, filename, MemberPath(filename), file_data,
                ShouldVerify(crc32, file_data))

\* (mutant) no end is held to be beyond the buffer
Untruncated(d, end) == FALSE

\* name_end > len(data), data_end > len(data)
Truncated(d, end) == end > d.len

\* the header h was read at o and passed the sanity bounds
MemberBody(d, o, st, writeFault, h, name_end, data_start, data_end, filename) ==
    IF Truncated(d, name_end) THEN StepResult("break", o, st, <<>>, FALSE, EmptyBuf)
    ELSE IF Truncated(d, data_end) THEN StepResult("break", o, st, filename, FALSE, EmptyBuf)
    ELSE MemberData(o, data_end, st, writeFault, h.crc32, filename,
                    Decompressed(h.method, Slice(d, data_start, data_end)))

MemberHeader(d, o, st, writeFault, h) ==
    IF HeaderRejected(h)
    THEN StepResult("reject", RejectAdvance(o), st, <<>>, FALSE, EmptyBuf)
    ELSE MemberBody(d, o, st, writeFault, h,
                    o + HeaderLen + h.name_len,
                    o + HeaderLen + h.name_len + h.extra_len,
                    SatAdd(o + HeaderLen + h.name_len + h.extra_len, h.comp_size),
                    DecodeUtf8(Slice(d, o + HeaderLen, o + HeaderLen + h.name_len)))

MemberStep(d, o, st, writeFault) == MemberHeader(d, o, st, writeFault, Header(d, o))


(***************************************************************************)
(* The compound-file (OLE) readers.                                        *)
(***************************************************************************)
OleMagic == <<208, 207, 17, 224, 161, 177, 26, 225>>
OleHeaderLen == 512
DirEntryLen == 128
TypeStream == 2

\* 1 << sector_shift, saturating
Pow2(n) == IF n >= 30 THEN Huge ELSE 2 ^ n

\* "casewaredocument"
TargetName == <<99, 97, 115, 101, 119, 97, 114, 101, 100, 111, 99, 117, 109, 101, 110, 116>>

\* str.lower() on one code unit (ASCII letters)
LowerUnit(u) == IF u >= 65 /\ u <= 90 THEN u + 32 ELSE u

\* the 32 UTF-16LE code units of the name field of the entry at offset p
NameUnits(d, p) == [k \in 1..32 |-> U16(d, p + 2 * (k - 1))]

\* name_bytes.find(b'\x00\x00')
NullPos(d, p) ==
    LET hits == {k \in 0..62 : Byte(d, p + k) = 0 /\ Byte(d, p + k + 1) = 0}
    IN  IF hits = {} THEN -1 ELSE CHOOSE k \in hits : \A j \in hits : k <= j

\* s.rstrip('\x00')
RECURSIVE RStripZero(_)
RStripZero(u) ==
    IF u # <<>> /\ u[Len(u)] = 0 THEN RStripZero(SubSeq(u, 1, Len(u) - 1)) ELSE u

\* the decoded name of the directory entry at offset p.  A name whose
\* decoding raises (a lone surrogate) makes the code skip the entry; such a
\* name equals no target, and here it is the code units themselves.
EntryName(d, p) ==
    LET np == NullPos(d, p)
    IN  IF np > 0 /\ np % 2 = 0 THEN SubSeq(NameUnits(d, p), 1, np \div 2)
        ELSE RStripZero(NameUnits(d, p))

\* name.lower() == 'casewaredocument' and entry_type == 2
IsTargetEntry(d, p) ==
    /\ Byte(d, p + 66) = TypeStream
    /\ LET n == EntryName(d, p) IN [k \in 1..Len(n) |-> LowerUnit(n[k])] = TargetName

NotFound == [found |-> FALSE, bytes |-> EmptyBuf]

MaxDirSectors == 10

\* the entry offsets the two nested loops visit, in the order visited, are
\* the increasing offsets dir_offset + sector * sector_size + idx * 128 with
\* sector < the number of whole sectors below len(data) (at most 10) and
\* idx < sector_size // 128.  A target entry starts with a nonzero byte, so
\* only offsets of nonzero bytes need be looked at.
DirEntryOffsets(d, dir_offset, sector_size) ==
    LET nsect == Cardinality({s \in 0..(MaxDirSectors - 1) :
                     SatAdd(dir_offset, SatMul(s + 1, sector_size)) <= d.len})
        eps   == sector_size \div DirEntryLen
    IN  {p \in DOMAIN d.nz :
            /\ p >= dir_offset
            /\ (p - dir_offset) \div sector_size < nsect
            /\ ((p - dir_offset) % sector_size) % DirEntryLen = 0
            /\ ((p - dir_offset) % sector_size) \div DirEntryLen < eps
            /\ p + DirEntryLen <= d.len}

\* the contiguous read of the universal extractor: data[stream_offset :
\* stream_offset + stream_size] when that range lies inside the buffer
ContiguousStream(d, p, sector_size) ==
    LET start_sector  == U32(d, p + 116)
        stream_size   == U64(d, p + 120)
        stream_offset == SatAdd(OleHeaderLen, SatMul(start_sector, sector_size))
    IN  IF SatAdd(stream_offset, stream_size) <= d.len
        THEN [found |-> TRUE, bytes |-> Slice(d, stream_offset, stream_offset + stream_size)]
        ELSE NotFound

\* CaseWareExtractor.parse_ole_compound_document
parse_ole_compound_document(d) ==
    IF d.len < OleHeaderLen \/ ~StartsWith(d, OleMagic) THEN NotFound
    ELSE LET sector_size == Pow2(U16(d, 30))
             dir_offset  == SatAdd(OleHeaderLen, SatMul(U32(d, 48), sector_size))
             hits == {p \in DirEntryOffsets(d, dir_offset, sector_size) :
                         IsTargetEntry(d, p) /\ ContiguousStream(d, p, sector_size).found}
         IN  IF hits = {} THEN NotFound
             ELSE ContiguousStream(d, CHOOSE p \in hits : \A q \in hits : p <= q,
                                   sector_size)


(***************************************************************************)
(* CaseWareStreamExtractor: the reader that follows the FAT.               *)
(***************************************************************************)
\* The two reserved words the reader tests for.  0xFFFFFFFE ends the loop of
\* read_fat_chain and is left out of fat_sectors (the comments of the code
\* call it FREESECT); 0xFFFFFFFF read from the table ends the chain (the
\* comments call it ENDOFCHAIN).
EndOfChain == <<254, 255, 255, 255>>      \* 0xFFFFFFFE
FreeSect   == <<255, 255, 255, 255>>      \* 0xFFFFFFFF
DifatOffset == 76
DifatEntries == 109

\* struct.unpack('<I', ...) of a 4-byte word, saturating as U32 does
WordVal(w) ==
    IF w[4] >= 64 THEN Huge ELSE w[1] + 256 * w[2] + 65536 * w[3] + 16777216 * w[4]

\* fat_sectors: the header's locators that are not 0xFFFFFFFE, in order
FatSectors(d) ==
    LET all == [i \in 1..DifatEntries |-> Word(d, DifatOffset + 4 * (i - 1))]
    IN  SelectSeq(all, LAMBDA w : w # EndOfChain)

\* the offsets of the FAT sectors that lie inside the buffer, in order;
\* fat_table is the concatenation of their 4-byte entries
FatTableSectors(d, sector_size, fat_sectors) ==
    LET offs == [i \in 1..Len(fat_sectors) |->
                    SatAdd(OleHeaderLen, SatMul(WordVal(fat_sectors[i]), sector_size))]
    IN  SelectSeq(offs, LAMBDA o : SatAdd(o, sector_size) <= d.len)

\* len(fat_table)
FatTableLen(tbl, sector_size) == Len(tbl) * (sector_size \div 4)

\* fat_table[k], as the 4 bytes stored
FatEntry(d, tbl, sector_size, k) ==
    LET eps == sector_size \div 4
    IN  Word(d, tbl[(k \div eps) + 1] + 4 * (k % eps))

\* the loop of read_fat_chain from current_sector (a 4-byte word)
RECURSIVE FollowChain(_, _, _, _, _, _)
FollowChain(d, tbl, sector_size, cur, visited, sectors) ==
    LET c == WordVal(cur)
    IN  IF cur = EndOfChain \/ c >= FatTableLen(tbl, sector_size) THEN sectors
        ELSE IF c \in visited THEN sectors
        ELSE LET nxt == FatEntry(d, tbl, sector_size, c)
             IN  IF nxt = FreeSect THEN Append(sectors, c)
                 ELSE FollowChain(d, tbl, sector_size, nxt, visited \cup {c},
                                  Append(sectors, c))

\* (mutant) the chain is the start sector alone, whatever the table holds
StartSectorAlone(d, start_sector, sector_size, fat_sectors) == <<WordVal(start_sector)>>

\* CaseWareStreamExtractor.read_fat_chain
read_fat_chain(d, start_sector, sector_size, fat_sectors) ==
    FollowChain(d, FatTableSectors(d, sector_size, fat_sectors), sector_size,
                start_sector, {}, <<>>)

\* the sectors of the chain that lie inside the buffer, concatenated
RECURSIVE ReadSectors(_, _, _)
ReadSectors(d, sector_size, sectors) ==
    IF sectors = <<>> THEN EmptyBuf
    ELSE LET o == SatAdd(OleHeaderLen, SatMul(Head(sectors), sector_size))
             rest == ReadSectors(d, sector_size, Tail(sectors))
         IN  IF SatAdd(o, sector_size) <= d.len THEN Cat(Slice(d, o, o + sector_size), rest)
             ELSE rest

\* CaseWareStreamExtractor.extract_stream_data
extract_stream_data(d, start_sector, stream_size, sector_size, fat_sectors) ==
    IF stream_size = 0 THEN EmptyBuf
    ELSE LET sectors     == read_fat_chain(d, start_sector, sector_size, fat_sectors)
             stream_data == ReadSectors(d, sector_size, sectors)
         IN  IF stream_data.len > stream_size THEN Slice(stream_data, 0, stream_size)
             ELSE stream_data

\* Strategy 1 of the robust reader: the first target entry of the directory
\* scan whose stream data is not empty
StandardOleStream(d) ==
    LET sector_size == Pow2(U16(d, 30))
        fat_sectors == FatSectors(d)
        dir_offset  == SatAdd(OleHeaderLen, SatMul(U32(d, 48), sector_size))
        Data(p)     == extract_stream_data(d, Word(d, p + 116), U64(d, p + 120),
                                           sector_size, fat_sectors)
        hits == {p \in DirEntryOffsets(d, dir_offset, sector_size) :
                    IsTargetEntry(d, p) /\ Data(p).len > 0}
    IN  IF hits = {} THEN NotFound
        ELSE [found |-> TRUE, bytes |-> Data(CHOOSE p \in hits : \A q \in hits : p <= q)]

\* "CasewareDocument" and "CaseWareDocument", as UTF-8 and as UTF-16LE
PatternLower == <<67, 97, 115, 101, 119, 97, 114, 101, 68, 111, 99, 117, 109, 101, 110, 116>>
PatternUpper == <<67, 97, 115, 101, 87, 97, 114, 101, 68, 111, 99, 117, 109, 101, 110, 116>>
Utf16(s) == [k \in 1..(2 * Len(s)) |-> IF k % 2 = 1 THEN s[(k + 1) \div 2] ELSE 0]
SearchPatterns == <<PatternLower, Utf16(PatternLower), PatternUpper, Utf16(PatternUpper)>>
SearchWindow == 50000
BruteForceMax == 10485760
LargestBlockMax == 20971520
HeaderArea == 1000

\* Strategy 2: the bytes from the first signature on, when a name pattern
\* occurs and that signature lies before the end of the pattern's window
RECURSIVE BruteForceFrom(_, _)
BruteForceFrom(d, k) ==
    IF k > Len(SearchPatterns) THEN NotFound
    ELSE LET pos == Find(d, SearchPatterns[k], 0)
             search_start == Max(0, pos - SearchWindow)
             search_end   == Min(d.len, pos + SearchWindow)
             zpos == Find(d, LocalSig, search_start)
         IN  IF pos # -1 /\ zpos # -1 /\ zpos < search_end
             THEN [found |-> TRUE,
                   bytes |-> Slice(d, zpos, zpos + Min(BruteForceMax, d.len - zpos))]
             ELSE BruteForceFrom(d, k + 1)

BruteForceStream(d) == BruteForceFrom(d, 1)

\* Strategy 3: the bytes from the first signature beyond the header area,
\* or else from the first signature
LargestBlockStream(d) ==
    LET zip_positions == {p \in DOMAIN d.nz : MatchAt(d, p, LocalSig)}
        far == {p \in zip_positions : p > HeaderArea}
        Least(S) == CHOOSE p \in S : \A q \in S : p <= q
        zpos == IF far # {} THEN Least(far) ELSE Least(zip_positions)
    IN  IF zip_positions = {} THEN NotFound
        ELSE [found |-> TRUE,
              bytes |-> Slice(d, zpos, zpos + Min(LargestBlockMax, d.len - zpos))]

\* the strategies that follow the standard parsing
RobustFallbacks(d) ==
    IF BruteForceStream(d).found THEN BruteForceStream(d) ELSE LargestBlockStream(d)

\* (mutant) the reader without the check of the length and of the magic
RobustUnchecked(d) ==
    IF StandardOleStream(d).found THEN StandardOleStream(d)
    ELSE RobustFallbacks(d)

\* CaseWareStreamExtractor.extract_caseware_document_stream_robust
extract_caseware_document_stream_robust(d) ==
    IF d.len < OleHeaderLen \/ ~StartsWith(d, OleMagic) THEN NotFound
    ELSE IF StandardOleStream(d).found THEN StandardOleStream(d)
    ELSE RobustFallbacks(d)

(***************************************************************************)
(* CaseWareExtractor.extract_zip_archive.  The archive is opened with the  *)
(* standard library's zipfile.ZipFile and extracted with extractall; what  *)
(* follows is zipfile's reading of the end-of-central-directory record,    *)
(* of the central directory and of each listed member.  Archives with      *)
(* Zip64 records, encrypted members or methods other than store and        *)
(* deflate in the central directory are outside the inputs the model draws *)
(* (an unsupported method raises NotImplementedError in zipfile).          *)
(***************************************************************************)
EndSig == <<80, 75, 5, 6>>
CentralSig == <<80, 75, 1, 2>>
EndRecLen == 22
CentralLen == 46
MaxComment == 65536
MaxExtractVersion == 63

\* zipfile._EndRecData: the offset of the end record, or -1
EndRecOffset(z) ==
    IF z.len < EndRecLen THEN -1
    ELSE IF MatchAt(z, z.len - EndRecLen, EndSig) /\ U16(z, z.len - 2) = 0
    THEN z.len - EndRecLen
    ELSE LET from == Max(z.len - MaxComment - EndRecLen, 0)
             hits == {p \in DOMAIN z.nz : p >= from /\ MatchAt(z, p, EndSig)}
         IN  IF hits = {} THEN -1
             ELSE LET p == CHOOSE q \in hits : \A r \in hits : r <= q
                  IN  IF p + EndRecLen > z.len THEN -1 ELSE p

\* the central directory entries listed in cd (the bytes of the directory),
\* from position q on: [ok, entries]; ok is FALSE when zipfile raises
RECURSIVE CentralEntries(_, _, _)
CentralEntries(cd, q, acc) ==
    IF q >= cd.len THEN [ok |-> TRUE, entries |-> acc]
    ELSE IF q + CentralLen > cd.len \/ ~MatchAt(cd, q, CentralSig)
              \/ Byte(cd, q + 6) > MaxExtractVersion
    THEN [ok |-> FALSE, entries |-> acc]
    ELSE LET name_len == U16(cd, q + 28)
             e == [name          |-> Slice(cd, q + CentralLen, q + CentralLen + name_len),
                   method        |-> U16(cd, q + 10),
                   crc32         |-> Word(cd, q + 16),
                   comp_size     |-> U32(cd, q + 20),
                   file_size     |-> U32(cd, q + 24),
                   header_offset |-> U32(cd, q + 42)]
         IN  CentralEntries(cd, q + CentralLen + name_len + U16(cd, q + 30)
                                  + U16(cd, q + 32),
                            Append(acc, e))

\* ZipFile._extract_member's target: "", "." and ".." components are removed
ZipMemberPath(name) ==
    [abs   |-> FALSE,
     comps |-> SelectSeq(SplitPath(name, <<>>, <<>>), LAMBDA c : c # DotDot)]

\* zlib.decompressobj(-15).decompress, fed all of b: st is "eof" (the final
\* block ended), "short" (b ended first; out is what was decoded so far) or
\* "error".  Stored blocks only, as in Inflate.
RECURSIVE InflateStream(_, _, _)
InflateStream(b, pos, acc) ==
    IF pos >= b.len THEN [st |-> "short", out |-> acc]
    ELSE IF (Byte(b, pos) \div 2) % 4 # 0 THEN [st |-> "error", out |-> acc]
    ELSE IF pos + 5 > b.len THEN [st |-> "short", out |-> acc]
    ELSE IF U16(b, pos + 1) + U16(b, pos + 3) # 65535 THEN [st |-> "error", out |-> acc]
    ELSE IF pos + 5 + U16(b, pos + 1) > b.len
    THEN [st |-> "short", out |-> Cat(acc, Slice(b, pos + 5, b.len))]
    ELSE IF Byte(b, pos) % 2 = 1
    THEN [st |-> "eof", out |-> Cat(acc, Slice(b, pos + 5, pos + 5 + U16(b, pos + 1)))]
    ELSE InflateStream(b, pos + 5 + U16(b, pos + 1),
                       Cat(acc, Slice(b, pos + 5, pos + 5 + U16(b, pos + 1))))

\* ZipExtFile.read to the end of member e: [ok, out]; ok is FALSE when it
\* raises.  got is what the file holds of the compress_size bytes, produced
\* what the decompressor made of it, ended whether the decompressor saw the
\* end of its stream.  The output is cut at file_size; the read ends when the
\* compressed bytes, the stream or file_size bytes are used up (else the next
\* read finds no data: EOFError) and then checks the CRC.  Methods other than
\* store and deflate, and flag bits, are outside the inputs the model draws.
ZipReadFail == [ok |-> FALSE, out |-> EmptyBuf]

ZipReadOut(e, out, eof) ==
    IF ~eof \/ Crc32(out) # e.crc32 THEN ZipReadFail ELSE [ok |-> TRUE, out |-> out]

ZipReadProduced(e, got, produced, ended) ==
    ZipReadOut(e, Slice(produced, 0, e.file_size),
               ended \/ got.len >= e.comp_size \/ produced.len >= e.file_size)

ZipDeflated(e, got, inf) ==
    IF inf.st = "error" THEN ZipReadFail
    ELSE ZipReadProduced(e, got, inf.out, inf.st = "eof")

ZipRead(e, got) ==
    IF e.comp_size > 0 /\ got.len = 0 THEN ZipReadFail
    ELSE IF e.method = MethodDeflate THEN ZipDeflated(e, got, InflateStream(got, 0, EmptyBuf))
    ELSE ZipReadProduced(e, got, got, FALSE)

\* extractall over the listed entries, in order; the first member that
\* raises ends the extraction.  [ok, fs, left]: left are the entries not
\* extracted
RECURSIVE ZipExtractAll(_, _, _, _)

\* _extract_member after the target was opened; r is what the read gave
ZipMemberCopied(z, concat, entries, f, path, r) ==
    IF r.ok THEN ZipExtractAll(z, concat, Tail(entries), WriteFile(f, path, r.out))
    ELSE [ok |-> FALSE, fs |-> WriteFile(f, path, EmptyBuf), left |-> Len(entries)]

\* _extract_member for entry e, whose local header is at ho, its name of
\* lnl bytes and its data at ds
ZipMember(z, concat, entries, f, e, ho, lnl, ds, path) ==
    IF MkdirFails(f, path) THEN [ok |-> FALSE, fs |-> f, left |-> Len(entries)]
    ELSE IF ho < 0 \/ ho + HeaderLen > z.len \/ ~MatchAt(z, ho, LocalSig)
            \/ Slice(z, ho + HeaderLen, ho + HeaderLen + lnl) # e.name
            \/ e.method \notin {0, MethodDeflate}
            \/ OpenFails(f, path)
    THEN [ok |-> FALSE, fs |-> MkdirOnly(f, path), left |-> Len(entries)]
    ELSE ZipMemberCopied(z, concat, entries, f, path,
                         ZipRead(e, Slice(z, ds, ds + e.comp_size)))

ZipMemberAt(z, concat, entries, f, e, ho, lnl) ==
    ZipMember(z, concat, entries, f, e, ho, lnl, ho + HeaderLen + lnl + U16(z, ho + 28),
              ZipMemberPath(DecodeUtf8(e.name)))

ZipEntry(z, concat, entries, f, e) ==
    ZipMemberAt(z, concat, entries, f, e, e.header_offset + concat,
                U16(z, e.header_offset + concat + 26))

ZipExtractAll(z, concat, entries, f) ==
    IF entries = <<>> THEN [ok |-> TRUE, fs |-> f, left |-> 0]
    ELSE ZipEntry(z, concat, entries, f, Head(entries))

\* extractall, given the central directory cd the end record led to:
\* members are the members extracted
ZipExtracted(r, n) == [ok |-> r.ok, fs |-> r.fs, members |-> n - r.left]

ZipDirectory(z, f, size_cd, offset_cd, concat, cd) ==
    IF size_cd >= Huge \/ offset_cd >= Huge \/ offset_cd + concat < 0 \/ ~cd.ok
    THEN [ok |-> FALSE, fs |-> f, members |-> 0]
    ELSE ZipExtracted(ZipExtractAll(z, concat, cd.entries, f), Len(cd.entries))

ZipEndRecord(z, f, e, size_cd, offset_cd) ==
    ZipDirectory(z, f, size_cd, offset_cd, e - size_cd - offset_cd,
                 CentralEntries(Slice(z, e - size_cd, e), 0, <<>>))

\* zipfile.ZipFile(temp_zip).extractall(output_path): [ok, fs, members]
ZipFileAt(z, f, e) ==
    IF e < 0 THEN [ok |-> FALSE, fs |-> f, members |-> 0]
    ELSE ZipEndRecord(z, f, e, U32(z, e + 12), U32(z, e + 16))

ZipFileExtractAll(z, f) == ZipFileAt(z, f, EndRecOffset(z))

\* CaseWareExtractor.extract_zip_archive: [ret, fs, members].  tempFault says
\* that the environment fails the write of the temporary file.
ZipReturned(r) == [ret |-> r.ok, fs |-> r.fs, members |-> r.members]

ExtractZipAt(d, f, tempFault, zip_offset) ==
    IF zip_offset = -1 \/ tempFault THEN [ret |-> FALSE, fs |-> f, members |-> 0]
    ELSE ZipReturned(ZipFileExtractAll(Slice(d, zip_offset, d.len), f))

extract_zip_archive(d, f, tempFault) ==
    ExtractZipAt(d, f, tempFault,
                 IF StartsWith(d, LocalSig) THEN 0 ELSE Find(d, LocalSig, 0))


(***************************************************************************)
(* State                                                                   *)
(***************************************************************************)
VARIABLES
    input,            \* the tool's input: [kind, files, desc] (desc describes the bytes)
    io,               \* the fault the environment injects in this run, or "none"
    queue,            \* run: the files of files_to_process not yet processed
    data,             \* process_file: the bytes read from the file
    ole_stream,       \* process_file: what parse_ole_compound_document returned
    stream_data,      \* extract_stream_from_file: what the robust reader returned
    stats,            \* self.stats
    extraction_log,   \* self.extraction_log
    fs,               \* the tree below output_path of the archive being processed
    success,          \* process_file: success
    pc,               \* the position of the control
    caller,           \* extract_damaged_zip: the strategy that called it (1, 2, 3)
    pdata,            \* extract_damaged_zip: data
    offset,           \* extract_damaged_zip: offset
    extracted_count,  \* extract_damaged_zip: extracted_count
    m3_offset,        \* process_file, method 3: offset
    zip_pos,          \* process_file, method 3: zip_pos
    returned,         \* the values process_file returned, in call order
    reports,          \* the extraction log files written, in order
    result,           \* the value caseware_extract_file returned, or NoResult
    hist              \* history: the extraction attempts of the current call

vars == <<input, io, queue, data, ole_stream, stream_data, stats, extraction_log, fs, success, pc, caller,
          pdata, offset, extracted_count, m3_offset, zip_pos, returned, reports,
          result, hist>>

frame == <<caller, pdata, offset, extracted_count>>

NoResult == [success |-> FALSE, none |-> TRUE]

InitStats == [files_processed |-> 0, files_extracted |-> 0, files_failed |-> 0,
              checksum_errors |-> 0, checksum_warnings |-> 0]

\* the state with the control at p and the bytes d read, nothing else done
InitAt(inp, fault, d, p) ==
    /\ input = inp
    /\ io = fault
    /\ queue = <<>>
    /\ data = d
    /\ ole_stream = NotFound
    /\ stream_data = NotFound
    /\ stats = InitStats
    /\ extraction_log = <<>>
    /\ fs = EmptyFs
    /\ success = FALSE
    /\ pc = p
    /\ caller = 0
    /\ pdata = EmptyBuf
    /\ offset = 0
    /\ extracted_count = 0
    /\ m3_offset = 0
    /\ zip_pos = 0
    /\ returned = <<>>
    /\ reports = <<>>
    /\ result = NoResult
    /\ hist = <<>>

\* the state after CaseWareExtractor.__init__, for the given input and fault
InitWith(inp, fault) == InitAt(inp, fault, EmptyBuf, "tool")

(***************************************************************************)
(* CaseWareExtractor.run, called by caseware_extract_file                  *)
(***************************************************************************)
\* get_files_to_process: a single file with a supported suffix, or the
\* supported files below a directory; nothing for a missing path
FilesToProcess(inp) == IF inp.kind \in {"file", "dir"} THEN inp.files ELSE <<>>

\* caseware_extract_file's returned dict
ToolResult(st) ==
    [success |-> TRUE, none |-> FALSE,
     files_processed |-> st.files_processed,
     files_extracted |-> st.files_extracted,
     files_failed    |-> st.files_failed]

\* caseware_extract_file up to the loop of run
RunStart ==
    /\ pc = "tool"
    /\ queue' = FilesToProcess(input)
    /\ pc' = "run"
    /\ UNCHANGED <<input, io, ole_stream, stream_data, data, stats, extraction_log, fs,
                   success, frame,
                   m3_offset, zip_pos, returned, reports, result, hist>>

\* run returns (no file is left) and caseware_extract_file returns its dict
RunEnd ==
    /\ pc = "run"
    /\ queue = <<>>
    /\ result' = ToolResult(stats)
    /\ pc' = "done"
    /\ UNCHANGED <<input, io, ole_stream, stream_data, queue, data, stats, extraction_log,
                   fs, success, frame,
                   m3_offset, zip_pos, returned, reports, hist>>

(***************************************************************************)
(* CaseWareExtractor.process_file                                          *)
(***************************************************************************)
\* (mutant) the exception leaves process_file and ends the loop of run
ProcessingRaises ==
    /\ stats' = stats
    /\ returned' = returned
    /\ pc' = "done"

\* the except branch of process_file: files_failed += 1; return False
ProcessingError ==
    /\ stats' = [stats EXCEPT !.files_failed = @ + 1]
    /\ returned' = Append(returned, FALSE)
    /\ pc' = "run"

\* the call, the read of the file and the creation of output_path
ProcessBegin ==
    /\ pc = "run"
    /\ queue # <<>>
    /\ queue' = Tail(queue)
    /\ hist' = <<>>
    /\ fs' = EmptyFs
    /\ \/ /\ io = "read"
          /\ ProcessingError
          /\ UNCHANGED <<data, success>>
       \/ /\ io = "mkdir"
          /\ data' = Head(queue)
          /\ stats' = [stats EXCEPT !.files_processed = @ + 1, !.files_failed = @ + 1]
          /\ returned' = Append(returned, FALSE)
          /\ pc' = "run"
          /\ UNCHANGED success
       \/ /\ io \notin {"read", "mkdir"}
          /\ data' = Head(queue)
          /\ stats' = [stats EXCEPT !.files_processed = @ + 1]
          /\ success' = FALSE
          /\ pc' = "m1"
          /\ UNCHANGED returned
    /\ UNCHANGED <<input, io, ole_stream, stream_data, extraction_log, frame, m3_offset,
                   zip_pos, reports, result>>

\* the start of a pass of extract_damaged_zip on buffer d for strategy c
StartPass(c, d) ==
    /\ caller' = c
    /\ pdata' = d
    /\ offset' = 0
    /\ extracted_count' = 0
    /\ pc' = "scan"

FileCount(f) == Cardinality(DOMAIN f.files)

\* Method 1: the compound-file stream, decompressed, as a ZIP archive
\* (z is what extract_zip_archive did), or else scanned
Method1Archive(decompressed, z) ==
    /\ fs' = z.fs
    /\ hist' = Append(hist, [strategy |-> 1, what |-> "zipfile", base |-> 0,
                             written |-> z.members,
                             ret |-> z.ret])
    /\ IF z.ret
       THEN /\ success' = TRUE
            /\ pc' = "m2"
            /\ UNCHANGED frame
       ELSE /\ StartPass(1, decompressed)
            /\ UNCHANGED success

Method1Stream(decompressed) ==
    Method1Archive(decompressed, extract_zip_archive(decompressed, fs, io = "write"))

Method1Parsed(stream) ==
    IF stream.found /\ stream.bytes.len > 0
    THEN Method1Stream(decompress_caseware_file(stream.bytes))
    ELSE /\ pc' = "m2"
         /\ hist' = Append(hist, [strategy |-> 1, what |-> "none", base |-> 0,
                                  written |-> 0, ret |-> FALSE])
         /\ UNCHANGED <<fs, success, frame>>

Method1 ==
    /\ pc = "m1"
    /\ ole_stream' = parse_ole_compound_document(data)
    /\ Method1Parsed(ole_stream')
    /\ UNCHANGED <<input, io, stream_data, queue, data, stats, extraction_log, m3_offset,
                   zip_pos,
                   returned, reports, result>>

\* (mutant) Method 2 without its guard: the raw bytes are scanned whatever
\* Method 1 did
Method2Unguarded ==
    /\ pc = "m2"
    /\ StartPass(2, data)
    /\ UNCHANGED <<input, io, ole_stream, stream_data, queue, data, stats, extraction_log,
                   fs, success,
                   m3_offset, zip_pos, returned, reports, result, hist>>

\* Method 2: the raw bytes, scanned directly
Method2 ==
    /\ pc = "m2"
    /\ IF ~success
       THEN StartPass(2, data)
       ELSE /\ pc' = "m3"
            /\ UNCHANGED frame
    /\ UNCHANGED <<input, io, ole_stream, stream_data, queue, data, stats, extraction_log,
                   fs, success,
                   m3_offset, zip_pos, returned, reports, result, hist>>

\* Method 3 is entered: offset = 0
Method3 ==
    /\ pc = "m3"
    /\ IF ~success
       THEN /\ m3_offset' = 0
            /\ pc' = "m3loop"
       ELSE /\ pc' = "finish"
            /\ UNCHANGED m3_offset
    /\ UNCHANGED <<input, io, ole_stream, stream_data, queue, data, stats, extraction_log,
                   fs, success, frame,
                   zip_pos, returned, reports, result, hist>>

\* (mutant) the search resumes after the header of the occurrence tried
RetryPastHeader(pos) == pos + HeaderLen + 4

\* (mutant) the search is retried at the position of the match
RetrySame(pos) == pos

\* offset = zip_pos + 1: where the search resumes after a failed pass
RetryOffset(pos) == pos + 1

\* one iteration of the loop of Method 3, up to the call of extract_damaged_zip;
\* pos is what data.find returned, or -1 when the loop condition fails
Method3Found(pos) ==
    IF pos = -1
    THEN /\ pc' = "finish"
         /\ hist' = Append(hist, [strategy |-> 3, what |-> "none", base |-> m3_offset,
                                  written |-> 0, ret |-> FALSE])
         /\ UNCHANGED <<frame, zip_pos>>
    ELSE /\ zip_pos' = pos
         /\ StartPass(3, Slice(data, pos, data.len))
         /\ UNCHANGED hist

Method3Seek ==
    /\ pc = "m3loop"
    /\ Method3Found(IF m3_offset < data.len THEN Find(data, LocalSig, m3_offset) ELSE -1)
    /\ UNCHANGED <<input, io, ole_stream, stream_data, queue, data, stats, extraction_log,
                   fs, success,
                   m3_offset, returned, reports, result>>

(***************************************************************************)
(* CaseWareExtractor.extract_damaged_zip, one action per loop iteration    *)
(***************************************************************************)
\* an iteration at an offset that holds no signature: offset += 1
ScanSkip ==
    /\ pc = "scan"
    /\ ScanCond(pdata, offset)
    /\ ~MatchAt(pdata, offset, LocalSig)
    /\ offset' = offset + 1
    /\ UNCHANGED <<input, io, ole_stream, stream_data, queue, data, stats, extraction_log,
                   fs, success, pc,
                   caller, pdata, extracted_count, m3_offset, zip_pos, returned,
                   reports, result, hist>>

\* an iteration at a signature; r is what the iteration did
ScanMemberDone(r) ==
    /\ offset' = r.offset
    /\ stats' = r.stats
    /\ extraction_log' = r.log
    /\ fs' = r.fs
    /\ extracted_count' = IF r.kind = "extracted" THEN extracted_count + 1
                          ELSE extracted_count
    /\ pc' = IF r.kind = "break" THEN "scanret" ELSE "scan"

ScanMember ==
    /\ pc = "scan"
    /\ ScanCond(pdata, offset)
    /\ MatchAt(pdata, offset, LocalSig)
    /\ ScanMemberDone(MemberStep(pdata, offset,
                                 [stats |-> stats, log |-> extraction_log, fs |-> fs],
                                 io = "write"))
    /\ UNCHANGED <<input, io, ole_stream, stream_data, queue, data, success, caller, pdata,
                   m3_offset, zip_pos,
                   returned, reports, result, hist>>

\* the loop has ended: extract_damaged_zip returns extracted_count > 0 to
\* the strategy that called it
ScanReturn ==
    /\ \/ pc = "scan" /\ ~ScanCond(pdata, offset)
       \/ pc = "scanret"
    /\ LET ret == extracted_count > 0
       IN  /\ hist' = Append(hist, [strategy |-> caller, what |-> "scan",
                                    base |-> IF caller = 3 THEN zip_pos ELSE 0,
                                    written |-> extracted_count, ret |-> ret])
           /\ IF caller = 3
              THEN IF ret
                   THEN /\ success' = TRUE
                        /\ pc' = "finish"
                        /\ UNCHANGED m3_offset
                   ELSE /\ m3_offset' = RetryOffset(zip_pos)
                        /\ pc' = "m3loop"
                        /\ UNCHANGED success
              ELSE /\ success' = (success \/ ret)
                   /\ pc' = IF caller = 1 THEN "m2" ELSE "m3"
                   /\ UNCHANGED m3_offset
    /\ UNCHANGED <<input, io, ole_stream, stream_data, queue, data, stats, extraction_log,
                   fs, frame, zip_pos,
                   returned, reports, result>>

\* (mutant) the statistics when a failed file is not counted
UpdateStatisticsOnSuccess(st, ok) ==
    IF ok THEN [st EXCEPT !.files_extracted = @ + 1] ELSE st

\* "Update statistics": files_extracted or files_failed is incremented
UpdateStatistics(st, ok) ==
    IF ok THEN [st EXCEPT !.files_extracted = @ + 1]
    ELSE [st EXCEPT !.files_failed = @ + 1]

\* the statistics, the extraction log file and the return of process_file
Finish ==
    /\ pc = "finish"
    /\ LET st == UpdateStatistics(stats, success)
       IN  IF extraction_log # <<>> /\ io = "log"
           THEN /\ stats' = [st EXCEPT !.files_failed = @ + 1]
                /\ returned' = Append(returned, FALSE)
                /\ UNCHANGED <<extraction_log, reports>>
           ELSE /\ stats' = st
                /\ returned' = Append(returned, success)
                /\ IF extraction_log # <<>>
                   THEN /\ reports' = Append(reports,
                                         [call |-> Len(returned) + 1,
                                          entries |-> extraction_log,
                                          checksum_errors |-> st.checksum_errors,
                                          checksum_warnings |-> st.checksum_warnings])
                        /\ extraction_log' = <<>>
                   ELSE UNCHANGED <<extraction_log, reports>>
    /\ pc' = "run"
    /\ UNCHANGED <<input, io, ole_stream, stream_data, queue, data, fs, success, frame,
                   m3_offset, zip_pos,
                   result, hist>>

Next ==
    \/ RunStart
    \/ ProcessBegin
    \/ Method1
    \/ Method2
    \/ Method3
    \/ Method3Seek
    \/ ScanSkip
    \/ ScanMember
    \/ ScanReturn
    \/ Finish
    \/ RunEnd

(***************************************************************************)
(* Inputs                                                                  *)
(***************************************************************************)
\* a local file header followed by name, extra field and payload
LocalMember(m) ==
    CatAll(<<FromSeq(LocalSig \o <<20, 0, 0, 0>> \o LE16(m.method) \o <<0, 0, 0, 0>>
                     \o m.crc32 \o LE32(m.comp_size) \o LE32(m.uncomp_size)
                     \o LE16(m.name_len) \o LE16(m.extra_len)),
             FromSeq(m.name), Zeros(m.extra), FromSeq(m.payload)>>)

\* a deflate stream of one stored block, and a raw LZMA2 stream of one
\* uncompressed chunk, holding the bytes c
StoredBlock(c) == <<1>> \o LE16(Len(c)) \o LE16(65535 - Len(c)) \o c
Lzma2Chunk(c) ==
    (IF c = <<>> THEN <<>> ELSE <<1, (Len(c) - 1) \div 256, (Len(c) - 1) % 256>> \o c) \o <<0>>

Encoded(method, c) ==
    IF method = MethodDeflate THEN StoredBlock(c)
    ELSE IF method = MethodLzma THEN Lzma2Chunk(c)
    ELSE c

\* the well-formed member that holds content c, encoded as payload, under name n
MemberWith(n, c, method, payload) ==
    [name |-> n, content |-> c, method |-> method, crc32 |-> Crc32(FromSeq(c)),
     payload |-> payload, comp_size |-> Len(payload),
     uncomp_size |-> Len(c), name_len |-> Len(n), extra |-> 0, extra_len |-> 0]

WellFormed(n, c, method) == MemberWith(n, c, method, Encoded(method, c))

\* the name and the content of the member at position i of a buffer
NameAt(i) == <<96 + i>>
ContentAt(i) == <<119 + i, 121>>

WrongCrc == <<5, 0, 0, 0>>
LongNameLen == MaxNameLen + 1
UnknownMethod == 99
BeyondBuffer == 5000

\* the members the inputs are built of, by kind
RegularKinds == {"store", "deflate"}
IrregularKinds ==
    {"lzma", "empty", "badcrc", "zerocrc", "emptybad", "method99", "baddeflate",
     "namelen", "extralen", "compsize", "compshort", "noname", "dotdot", "absolute",
     "backslash", "nested", "same", "longname"}

NameOf(kind, i) ==
    CASE kind = "noname"    -> <<>>
      [] kind = "dotdot"    -> <<Dot, Dot, Slash, Dot, Dot, Slash, 101>>
      [] kind = "absolute"  -> <<Slash, 101>>
      [] kind = "backslash" -> <<100, Backslash>> \o NameAt(i)
      [] kind = "nested"    -> NameAt(1) \o <<Slash, 110>>
      [] kind = "same"      -> NameAt(1)
      [] kind = "longname"  -> [k \in 1..LongNameLen |-> 96 + i]
      [] OTHER              -> NameAt(i)

ContentOf(kind, i) ==
    CASE kind \in {"empty", "emptybad"} -> <<>>
      [] kind = "baddeflate"            -> <<7, 119 + i>>
      [] OTHER                          -> ContentAt(i)

MethodOf(kind) ==
    CASE kind = "deflate" -> MethodDeflate
      [] kind = "lzma"    -> MethodLzma
      [] OTHER            -> 0

\* the header fields of member m as the kind has them
HeaderOf(kind, m) ==
    CASE kind \in {"badcrc", "emptybad"} -> [m EXCEPT !.crc32 = WrongCrc]
      [] kind = "zerocrc"    -> [m EXCEPT !.crc32 = ZeroWord]
      [] kind = "method99"   -> [m EXCEPT !.method = UnknownMethod]
      [] kind = "baddeflate" -> [m EXCEPT !.method = MethodDeflate]
      [] kind = "namelen"    -> [m EXCEPT !.name_len = LongNameLen]
      [] kind = "extralen"   -> [m EXCEPT !.extra_len = MaxExtraLen + 1]
      [] kind = "compsize"   -> [m EXCEPT !.comp_size = BeyondBuffer]
      [] kind = "compshort"  -> [m EXCEPT !.comp_size = 1]
      [] kind = "namebeyond" -> [m EXCEPT !.name_len = MaxNameLen]
      [] kind = "oversize"   -> [m EXCEPT !.uncomp_size = 2 * MaxNameLen]
      [] OTHER               -> m

MemberOf(kind, i) ==
    HeaderOf(kind, WellFormed(NameOf(kind, i), ContentOf(kind, i), MethodOf(kind)))

\* the members of a body (a sequence of kinds)
Members(body) == [i \in 1..Len(body) |-> MemberOf(body[i], i)]

\* the bytes of a body: its members one after another
BodyBytes(body) == CatAll([i \in 1..Len(body) |-> LocalMember(MemberOf(body[i], i))])

\* the end-of-central-directory record for n entries
EndRecord(n, size_cd, offset_cd) ==
    FromSeq(EndSig \o <<0, 0, 0, 0>> \o LE16(n) \o LE16(n) \o LE32(size_cd)
            \o LE32(offset_cd) \o <<0, 0>>)

\* the central directory entry of member m, whose local header is at off;
\* it holds the lengths the member has, whatever its local header says
CentralEntry(m, crc, off) ==
    FromSeq(CentralSig \o <<20, 0, 20, 0, 0, 0>> \o LE16(m.method) \o <<0, 0, 0, 0>>
            \o crc \o LE32(Len(m.payload)) \o LE32(Len(m.content)) \o LE16(Len(m.name))
            \o <<0, 0, 0, 0, 0, 0, 0, 0, 0, 0, 0, 0>> \o LE32(off) \o m.name)

\* the offset of member i of a body
RECURSIVE MemberOffset(_, _)
MemberOffset(body, i) ==
    IF i = 1 THEN 0
    ELSE MemberOffset(body, i - 1) + LocalMember(MemberOf(body[i - 1], i - 1)).len

\* the central directory of a body; badCrc gives the last entry a wrong checksum
CentralEntryOf(m, badCrc, off) == CentralEntry(m, IF badCrc THEN WrongCrc ELSE m.crc32, off)

CentralDirectory(body, badCrc) ==
    CatAll([i \in 1..Len(body) |->
              CentralEntryOf(MemberOf(body[i], i), badCrc /\ i = Len(body),
                             MemberOffset(body, i))])

\* what follows the members of an archive
Tails == {"none", "endonly", "central", "centralbad"}

\* an archive: the members b of a body, and what follows them
ArchiveOf(b, cd, n, tail) ==
    CASE tail = "none"    -> b
      [] tail = "endonly" -> Cat(b, EndRecord(0, 0, b.len))
      [] OTHER            -> CatAll(<<b, cd, EndRecord(n, cd.len, b.len)>>)

Archive(body, tail) ==
    ArchiveOf(BodyBytes(body), CentralDirectory(body, tail = "centralbad"), Len(body), tail)

\* the stream of a CaseWare file that holds archive z
Envelopes == {"plain", "lzma", "marker"}

RECURSIVE Lzma2Chunks(_)
Lzma2Chunks(z) ==
    IF z.len = 0 THEN FromSeq(<<0>>)
    ELSE CatAll(<<FromSeq(<<1, (Min(z.len, 65536) - 1) \div 256,
                            (Min(z.len, 65536) - 1) % 256>>),
                  Slice(z, 0, 65536), Lzma2Chunks(Slice(z, 65536, z.len))>>)

EnvelopeOf(z, lz, env) ==
    CASE env = "plain"  -> z
      [] env = "lzma"   -> lz
      [] env = "marker" -> CatAll(<<FromSeq(CaseWareMarker), Zeros(8), lz>>)

Enveloped(z, env) == EnvelopeOf(z, Lzma2Chunks(z), env)

(***************************************************************************)
(* Compound files.  The file has 512-byte sectors (sector shift 9): sector *)
(* 0 is the FAT, sector 1 the directory (the root entry and the stream's   *)
(* entry), and the stream's sectors follow, one after another ("contig")   *)
(* or every other sector ("frag"); the FAT chains them in stream order.    *)
(***************************************************************************)
SectorShift == 9
FatSect == <<253, 255, 255, 255>>        \* 0xFFFFFFFD

Pad(b, n) == Cat(b, Zeros(n - b.len))

\* the sector that holds part i (1-based) of the stream
StreamSector(layout, i) == IF layout = "frag" THEN 2 * i ELSE i + 1

OleHeader(shift, dir_sector, fat_sector) ==
    FromSeq([k \in 1..OleHeaderLen |->
        LET o == k - 1
        IN  IF o < 8 THEN OleMagic[k]
            ELSE IF o \in {30, 31} THEN LE16(shift)[o - 29]
            ELSE IF o = 44 THEN 1
            ELSE IF o \in 48..51 THEN LE32(dir_sector)[o - 47]
            ELSE IF o \in 76..79 THEN LE32(fat_sector)[o - 75]
            ELSE IF o >= 80 THEN 255
            ELSE 0])

\* a 128-byte directory entry
DirEntry(name, type, start, size) ==
    FromSeq([k \in 1..DirEntryLen |->
        LET o == k - 1
        IN  IF o < 2 * Len(name) THEN Utf16(name)[k]
            ELSE IF o = 64 THEN 2 * Len(name) + 2
            ELSE IF o = 66 THEN type
            ELSE IF o \in 116..119 THEN start[o - 115]
            ELSE IF o \in 120..123 THEN LE32(size)[o - 119]
            ELSE 0])

RootName == <<82, 111, 111, 116, 32, 69, 110, 116, 114, 121>>      \* "Root Entry"

\* the compound file that holds stream under entry name, with the declared size
OleFileWith(stream, layout, name, type, size) ==
    LET ss    == Pow2(SectorShift)
        n     == (stream.len + ss - 1) \div ss
        last  == IF n = 0 THEN 1 ELSE StreamSector(layout, n)
        part  == [sct \in 2..last |-> CHOOSE i \in 0..n :
                     (i > 0 /\ StreamSector(layout, i) = sct)
                     \/ (i = 0 /\ \A j \in 1..n : StreamSector(layout, j) # sct)]
        fat   == FromSeq([k \in 1..ss |->
                     LET e == (k - 1) \div 4
                         w == IF e = 0 THEN FatSect
                              ELSE IF e = 1 THEN EndOfChain
                              ELSE IF e > last \/ part[e] = 0 THEN FreeSect
                              ELSE IF part[e] = n THEN EndOfChain
                              ELSE LE32(StreamSector(layout, part[e] + 1))
                     IN  w[((k - 1) % 4) + 1]])
        dir   == Cat(DirEntry(RootName, 5, EndOfChain, 0),
                     DirEntry(name, type, LE32(2), size))
    IN  CatAll(<<OleHeader(SectorShift, 1, 0), fat, Pad(dir, ss)>>
               \o [k \in 1..(last - 1) |->
                     IF part[k + 1] = 0 THEN Zeros(ss)
                     ELSE Pad(Slice(stream, (part[k + 1] - 1) * ss, part[k + 1] * ss), ss)])

DocumentName == <<67, 97, 115, 101, 119, 97, 114, 101, 68, 111, 99, 117, 109, 101, 110, 116>>

OleFile(stream, layout) == OleFileWith(stream, layout, DocumentName, TypeStream, stream.len)

(***************************************************************************)
(* The inputs of the tool.  A file is described by [wrap, layout, env,     *)
(* body, tail]: the kinds of its members, what follows them, and how the   *)
(* archive is wrapped (bare, between junk bytes, or as the stream of a     *)
(* compound file, plain or LZMA2-encoded).                                 *)
(***************************************************************************)
MaxMembers == 2          \* members of a bare archive
MaxStreamMembers == 2    \* members of an archive inside a compound file
MaxFiles == 2            \* files of an input directory

\* the bodies of at most n members of which at most one is irregular
Bodies(n, irregular) ==
    UNION {{b \in [1..k -> RegularKinds \cup irregular] :
               Cardinality({i \in 1..k : b[i] \in irregular}) <= 1} : k \in 0..n}

StreamIrregularKinds == {"badcrc", "compsize", "dotdot", "noname"}

FileDesc(wrap, layout, env, body, tail) ==
    [wrap |-> wrap, layout |-> layout, env |-> env, body |-> body, tail |-> tail]

Bare(body) == FileDesc("raw", "contig", "plain", body, "none")

RawFiles == {Bare(b) : b \in Bodies(MaxMembers, IrregularKinds)}

TailFiles == {FileDesc(w, "contig", "plain", b, t) :
                 w \in {"raw", "junk"}, b \in Bodies(1, {"badcrc"}), t \in Tails}

OleFiles == {FileDesc("ole", "contig", v, b, t) :
                v \in Envelopes, b \in Bodies(MaxStreamMembers, StreamIrregularKinds),
                t \in Tails}

\* archives of three members whose first headers declare more data than
\* the buffer holds
SeekFiles == {Bare(<<"compsize", "store", "deflate">>),
              Bare(<<"compsize", "compsize", "store">>)}

\* archives with a header whose name, of a length within the sanity bounds,
\* ends beyond the buffer
CutFiles == {Bare(<<"store", "namebeyond">>), Bare(<<"namebeyond", "store">>)}

\* an archive right after the four bytes of a signature: the header read at
\* the first match takes its lengths from the size fields of the member that
\* begins 4 bytes later, and fails the sanity bounds
OverlapFiles == {FileDesc("sig", "contig", "plain", <<"oversize", "store">>, "none"),
                 FileDesc("sig", "contig", "plain", <<"oversize">>, "none")}

FileDescs == RawFiles \cup TailFiles \cup OleFiles \cup SeekFiles \cup CutFiles
                 \cup OverlapFiles

Junk == FromSeq(<<120, 120>>)

\* the bytes of the file described by fd
Wrapped(z, fd) ==
    CASE fd.wrap = "raw"  -> z
      [] fd.wrap = "junk" -> CatAll(<<Junk, z, Junk>>)
      [] fd.wrap = "sig"  -> Cat(FromSeq(LocalSig), z)
      [] fd.wrap = "ole"  -> OleFile(Enveloped(z, fd.env), fd.layout)

FileBytes(fd) == Wrapped(Archive(fd.body, fd.tail), fd)

\* the files of the directories the tool is given
BatchPool == {Bare(<<>>), Bare(<<"store">>), Bare(<<"badcrc">>)}
Batches == UNION {[1..k -> BatchPool] : k \in 0..MaxFiles}

\* the tool's inputs: [kind, descs]
ToolInputs ==
    {[kind |-> "file", descs |-> <<fd>>] : fd \in FileDescs}
    \cup {[kind |-> k, descs |-> <<>>] : k \in {"missing", "unsupported"}}
    \cup {[kind |-> "dir", descs |-> ds] : ds \in Batches}

\* the faults of the environment an input is run with
FaultFiles == {Bare(<<>>), Bare(<<"store">>), Bare(<<"badcrc">>),
               FileDesc("ole", "contig", "plain", <<"store">>, "central")}
\* the directories that are run with faults
FaultBatches == {<<Bare(<<"badcrc">>), Bare(<<"store">>)>>,
                 <<Bare(<<"store">>), Bare(<<"badcrc">>)>>}
Faults(ti) ==
    IF \/ ti.kind = "file" /\ ti.descs[1] \in FaultFiles
       \/ ti.kind = "dir" /\ ti.descs \in FaultBatches
    THEN {"none", "read", "mkdir", "write", "log"}
    ELSE {"none"}

Init ==
    \E ti \in ToolInputs : \E fault \in Faults(ti) :
        InitWith([kind  |-> ti.kind,
                  files |-> [i \in 1..Len(ti.descs) |-> FileBytes(ti.descs[i])],
                  desc  |-> ti.descs],
                 fault)

Spec == Init /\ [][Next]_vars

\* The tool runs on: the interpreter takes the next step of the program
\* whenever there is one.  This is WF_vars(Next) with ENABLED <<Next>>_vars
\* written out: a step of Next is possible, and changes the state, exactly
\* when pc # "done".  The inputs are the bare archives and the archives
\* between junk bytes, one file or a directory of two.
LiveFiles == RawFiles \cup SeekFiles \cup CutFiles
                 \cup {fd \in TailFiles : fd.wrap = "junk"}

LiveInputs ==
    {ti \in ToolInputs : \A i \in 1..Len(ti.descs) : ti.descs[i] \in LiveFiles}

InitLive ==
    \E ti \in LiveInputs : \E fault \in Faults(ti) :
        InitWith([kind  |-> ti.kind,
                  files |-> [i \in 1..Len(ti.descs) |-> FileBytes(ti.descs[i])],
                  desc  |-> ti.descs],
                 fault)

Running == pc # "done"

SpecLive == InitLive /\ [][Next]_vars /\ (<>[]Running => []<><<Next>>_vars)

(***************************************************************************)
(* The two compound-file readers, applied to the bytes of one file:        *)
(* process_file's call of parse_ole_compound_document and                  *)
(* extract_stream_from_file's call of                                      *)
(* extract_caseware_document_stream_robust.                                *)
(***************************************************************************)
ReadOle ==
    /\ pc = "readers"
    /\ ole_stream' = parse_ole_compound_document(data)
    /\ pc' = "parsed"
    /\ UNCHANGED <<input, io, stream_data, queue, data, stats, extraction_log, fs,
                   success, frame, m3_offset, zip_pos, returned, reports, result, hist>>

ReadStream ==
    /\ pc = "parsed"
    /\ stream_data' = extract_caseware_document_stream_robust(data)
    /\ pc' = "streamed"
    /\ UNCHANGED <<input, io, ole_stream, queue, data, stats, extraction_log, fs,
                   success, frame, m3_offset, zip_pos, returned, reports, result, hist>>

NextOle == ReadOle \/ ReadStream

\* The files the readers are given: a compound file whose stream holds
\* len bytes (filler, then one stored member when there is room), laid out
\* contiguously or not, and then damaged or not: cut to its first c bytes,
\* or with byte k of the magic changed.
MaxStreamSectors == 3

MemberLen == LocalMember(MemberOf("store", 1)).len

StreamLens ==
    {0} \cup {j * Pow2(SectorShift) + MemberLen : j \in 0..(MaxStreamSectors - 1)}
        \cup {j * Pow2(SectorShift) : j \in 1..(MaxStreamSectors - 1)}

\* the stream of len bytes
StreamBytes(len) ==
    IF len < MemberLen THEN FromSeq([k \in 1..len |-> 122])
    ELSE Cat(FromSeq([k \in 1..(len - MemberLen) |-> 122]), BodyBytes(<<"store">>))

\* the bytes cut off the end of a file whose header, FAT and directory stay
TrimShort == 1
TrimLong == 500

\* the sector-size exponents written over the header's
ShiftLimit == 20

Damages ==
    {[how |-> "none", at |-> 0]}
    \cup {[how |-> "cut", at |-> c] : c \in {0, 7, 8, OleHeaderLen - 1}}
    \cup {[how |-> "magic", at |-> k] : k \in 1..Len(OleMagic)}
    \cup {[how |-> "trim", at |-> t] : t \in {TrimShort, TrimLong}}
    \cup {[how |-> "shift", at |-> e] : e \in {ShiftLimit - 1, ShiftLimit, ShiftLimit + 11}}

\* "wide" is a compound file whose sectors have 2^ShiftLimit bytes
OleInputs ==
    {[len |-> n, layout |-> l, damage |-> dmg] :
        n \in StreamLens, l \in {"contig", "frag"}, dmg \in Damages}
    \cup {[len |-> n, layout |-> l, damage |-> [how |-> "none", at |-> 0]] :
             n \in {0, MemberLen}, l \in {"wide", "dirchain"}}

\* buffer b with the byte at offset i replaced by v
SetByte(b, i, v) == CatAll(<<Slice(b, 0, i), FromSeq(<<v>>), Slice(b, i + 1, b.len)>>)

Damaged(b, dmg) ==
    CASE dmg.how = "none"  -> b
      [] dmg.how = "cut"   -> Slice(b, 0, dmg.at)
      [] dmg.how = "magic" -> SetByte(b, dmg.at - 1, (Byte(b, dmg.at - 1) + 1) % 256)
      [] dmg.how = "trim"  -> Slice(b, 0, b.len - dmg.at)
      [] dmg.how = "shift" -> SetByte(b, 30, dmg.at)

\* the compound file with sectors of 2^shift bytes: sector 0 is the FAT (its
\* unused entries are 0), sector 1 the directory, sector 2 the stream
WideOleFile(stream, shift) ==
    LET ss  == Pow2(shift)
        fat == FromSeq(FatSect \o EndOfChain \o EndOfChain)
        dir == Cat(DirEntry(RootName, 5, EndOfChain, 0),
                   DirEntry(DocumentName, TypeStream, LE32(2), stream.len))
    IN  CatAll(<<OleHeader(shift, 1, 0), Pad(fat, ss), Pad(dir, ss), Pad(stream, ss)>>)

\* the compound file whose directory is a chain of two sectors, the second
\* of which lies before the first in the file: sector 0 is the second
\* directory sector and holds the stream's entry, sector 1 the FAT, sector 2
\* the first directory sector (the root entry), sector 3 the stream
ChainedDirFile(stream) ==
    LET ss   == Pow2(SectorShift)
        fat  == FromSeq(EndOfChain \o FatSect \o LE32(0) \o EndOfChain)
        dir1 == DirEntry(RootName, 5, EndOfChain, 0)
        dir2 == DirEntry(DocumentName, TypeStream, LE32(3), stream.len)
    IN  CatAll(<<OleHeader(SectorShift, 2, 1), Pad(dir2, ss),
                 Cat(fat, FromSeq([k \in 1..(ss - fat.len) |-> 255])),
                 Pad(dir1, ss), Pad(stream, ss)>>)

OleBytes(od) ==
    IF od.layout = "wide" THEN WideOleFile(StreamBytes(od.len), ShiftLimit)
    ELSE IF od.layout = "dirchain" THEN ChainedDirFile(StreamBytes(od.len))
    ELSE Damaged(OleFile(StreamBytes(od.len), od.layout), od.damage)

InitOle ==
    \E od \in OleInputs :
        InitAt([kind |-> "ole", files |-> <<>>, desc |-> <<od>>], "none",
               OleBytes(od), "readers")

SpecOle == InitOle /\ [][NextOle]_vars

(***************************************************************************)
(* The compression codec on its own: decompress_caseware_file applied to   *)
(* the bytes of one stream.  The streams are byte sequences (samples) as   *)
(* they are, encoded as raw LZMA2, encoded inside the 12-byte envelope,    *)
(* and these with the encoding cut short, followed by junk, or replaced by *)
(* bytes that are no LZMA2 stream.  The repository holds no encoder; the   *)
(* encoding is the raw LZMA2 stream of uncompressed chunks (Lzma2Chunks).  *)
(***************************************************************************)
Decode ==
    /\ pc = "codec"
    /\ pdata' = decompress_caseware_file(data)
    /\ pc' = "decoded"
    /\ UNCHANGED <<input, io, ole_stream, stream_data, queue, data, stats, extraction_log,
                   fs, success, caller, offset, extracted_count, m3_offset, zip_pos,
                   returned, reports, result, hist>>

NextCodec == Decode

ChunkMax == 65536        \* the bytes of one LZMA2 chunk
MaxSampleBytes == 3      \* the length of the short samples

\* the byte sequences that are encoded: short ones over a few byte values,
\* archives, and sequences longer than one chunk
SampleBytes == {0, 1, 2, 12, 80}
ShortSamples ==
    {FromSeq(q) : q \in UNION {[1..n -> SampleBytes] : n \in 0..(MaxSampleBytes - 1)}}
LongSamples ==
    {Cat(FromSeq(<<7>>), Zeros(ChunkMax - 1)), Cat(FromSeq(<<7>>), Zeros(ChunkMax)),
     CatAll(<<FromSeq(CaseWareMarker), Zeros(8), FromSeq(<<7>>), Zeros(ChunkMax)>>),
     CatAll(<<BodyBytes(<<"store">>), Zeros(2 * ChunkMax), FromSeq(<<9>>)>>)}
ArchiveSamples == {BodyBytes(b) : b \in Bodies(1, {"lzma", "badcrc"})}
Samples == ShortSamples \cup LongSamples \cup ArchiveSamples
    \cup {Cat(FromSeq(CaseWareMarker), Zeros(8)), Cat(FromSeq(CaseWareMarker), Zeros(9))}

Forms == {"plain", "lzma", "marker", "cut", "markercut", "junk", "markerplain"}

\* the 12-byte prefix of the envelope: the marker and 8 more bytes
EnvelopePrefix == CatAll(<<FromSeq(CaseWareMarker), FromSeq(<<5, 0, 0, 0>>), Zeros(4)>>)

\* the stream of form f for sample b whose LZMA2 encoding is lz
CodecStream(b, lz, f) ==
    CASE f = "plain"       -> b
      [] f = "lzma"        -> lz
      [] f = "marker"      -> Cat(EnvelopePrefix, lz)
      [] f = "cut"         -> Slice(lz, 0, lz.len - 1)
      [] f = "markercut"   -> Cat(EnvelopePrefix, Slice(lz, 0, lz.len - 1))
      [] f = "junk"        -> Cat(lz, FromSeq(<<3, 7>>))
      [] f = "markerplain" -> Cat(EnvelopePrefix, b)

CodecInputs == {[sample |-> b, form |-> f] : b \in Samples, f \in Forms}

InitCodec ==
    \E cd \in CodecInputs :
        InitAt([kind |-> "codec", files |-> <<>>, desc |-> <<cd>>], "none",
               CodecStream(cd.sample, Lzma2Chunks(cd.sample), cd.form), "codec")

SpecCodec == InitCodec /\ [][NextCodec]_vars

(***************************************************************************)
(* The tools of server.py that answer with a dict and write nothing:       *)
(* caseware_analyze_file and wplog_find_bottlenecks.  A path is "missing", *)
(* a directory ("dir": it exists and cannot be opened as a file) or a      *)
(* readable "file".  The log files drawn for wplog_find_bottlenecks hold   *)
(* no line, so that no entry is parsed from them.                          *)
(***************************************************************************)
GzipSig  == <<31, 139>>
Bzip2Sig == <<66, 90, 104>>                      \* "BZh"
SevenZipSig == <<55, 122, 188, 175, 39, 28>>
LzmaSig  == <<93, 0, 0>>
PkSig    == <<80, 75>>
LzmaHead == 100          \* the LZMA2 signature is looked for in data[:100]
LzmaSearchMax == 10000   \* "Search first 10KB"
DefaultSectorSize == 512

\* b'CaseWare', b'VALIDE', b'DocumentSummaryInformation'
IndicatorNames ==
    <<<<67, 97, 115, 101, 87, 97, 114, 101>>,
      <<86, 65, 76, 73, 68, 69>>,
      <<68, 111, 99, 117, 109, 101, 110, 116, 83, 117, 109, 109, 97, 114, 121, 73, 110,
        102, 111, 114, 109, 97, 116, 105, 111, 110>>>>

\* the fields of the answer that are not set
NoAnswerFields ==
    [file_type |-> "", file_size |-> 0, ole_structure |-> FALSE, sector_size |-> 0,
     has_caseware_content |-> FALSE, zip_valid |-> FALSE, file_count |-> 0,
     lzma_signatures_found |-> 0, total_gaps_found |-> 0]

\* {"success": False, "error": ...}
ErrorAnswer == NoAnswerFields @@ [success |-> FALSE, error |-> TRUE]

\* file_type after the first chain of tests
BaseFileType(d) ==
    IF StartsWith(d, OleMagic) THEN "OLE Compound Document"
    ELSE IF StartsWith(d, PkSig) THEN "ZIP Archive"
    ELSE IF Find(Slice(d, 0, LzmaHead), LzmaSig, 0) # -1 THEN "LZMA2 Compressed"
    ELSE "unknown"

\* (mutant) a compound file is recognised only with its whole header
FileTypeOfWholeHeader(d) ==
    IF StartsWith(d, OleMagic) /\ d.len < OleHeaderLen THEN "unknown" ELSE BaseFileType(d)

\* file_type after "Additional file format detection"
FileType(d) ==
    IF StartsWith(d, GzipSig) THEN "GZIP Compressed"
    ELSE IF StartsWith(d, Bzip2Sig) THEN "BZIP2 Compressed"
    ELSE IF StartsWith(d, SevenZipSig) THEN "7-Zip Archive"
    ELSE BaseFileType(d)

\* sector_size of ole_structure
AnalyzedSectorSize(power) == IF power < ShiftLimit THEN 2 ^ power ELSE DefaultSectorSize

\* zipfile.ZipFile(io.BytesIO(data)).namelist(): [ok, count]
ZipNames(z, e, size_cd, offset_cd) ==
    LET cd == CentralEntries(Slice(z, e - size_cd, e), 0, <<>>)
    IN  IF size_cd >= Huge \/ offset_cd >= Huge \/ e - size_cd - offset_cd < 0 \/ ~cd.ok
        THEN [ok |-> FALSE, count |-> 0]
        ELSE [ok |-> TRUE, count |-> Len(cd.entries)]

ZipNameList(z, e) ==
    IF e < 0 THEN [ok |-> FALSE, count |-> 0]
    ELSE ZipNames(z, e, U32(z, e + 12), U32(z, e + 16))

\* the positions the search loop of the LZMA2 branch collects: the
\* occurrences of the signature up to the first one at which
\* search_pos = pos + 1 reaches min(len(data), 10000)
LzmaPositions(d) ==
    LET occ == {p \in DOMAIN d.nz : MatchAt(d, p, LzmaSig)}
    IN  {p \in occ : \A q \in occ : q < p => q + 1 < Min(d.len, LzmaSearchMax)}

\* analysis_result for a file that was read
Analysis(d, type, names) ==
    [NoAnswerFields EXCEPT
        !.file_type = FileType(d),
        !.file_size = d.len,
        !.ole_structure = (type = "OLE Compound Document" /\ d.len >= OleHeaderLen),
        !.sector_size = IF type = "OLE Compound Document" /\ d.len >= OleHeaderLen
                        THEN AnalyzedSectorSize(U16(d, 30)) ELSE 0,
        !.has_caseware_content =
            (/\ type = "OLE Compound Document"
             /\ d.len >= OleHeaderLen
             /\ \E k \in 1..Len(IndicatorNames) : Find(d, IndicatorNames[k], 0) # -1),
        !.zip_valid = (type = "ZIP Archive" /\ names.ok),
        !.file_count = IF type = "ZIP Archive" THEN names.count ELSE 0,
        !.lzma_signatures_found =
            IF type = "LZMA2 Compressed" THEN Cardinality(LzmaPositions(d)) ELSE 0]
    @@ [success |-> TRUE, error |-> FALSE]

\* caseware_analyze_file
caseware_analyze_file(path, d) ==
    IF path = "missing" THEN ErrorAnswer                 \* "File not found"
    ELSE IF path = "dir" THEN ErrorAnswer                \* open raises
    ELSE Analysis(d, BaseFileType(d), ZipNameList(d, EndRecOffset(d)))

\* (mutant) the log is loaded without the test that the path exists
LoadWithoutCheck(path, d) == [ok |-> TRUE, entries |-> <<>>]

\* WPLogAnalyzer.load_log_file: [ok, entries]
load_log_file(path, d) ==
    IF path = "missing" THEN [ok |-> FALSE, entries |-> <<>>]     \* FileNotFoundError
    ELSE IF path = "dir" THEN [ok |-> FALSE, entries |-> <<>>]    \* RuntimeError
    ELSE [ok |-> TRUE, entries |-> <<>>]

\* analyze_time_gaps: time_gaps (none with fewer than 2 entries)
analyze_time_gaps(entries) == <<>>

BottleneckAnswer(log, gaps) ==
    IF ~log.ok THEN ErrorAnswer
    ELSE [NoAnswerFields EXCEPT !.total_gaps_found = Len(gaps)]
         @@ [success |-> TRUE, error |-> FALSE]

\* wplog_find_bottlenecks
wplog_find_bottlenecks(path, d) ==
    BottleneckAnswer(load_log_file(path, d), analyze_time_gaps(load_log_file(path, d).entries))

AnalyzeFile ==
    /\ pc = "tools"
    /\ input.kind = "analyze"
    /\ result' = caseware_analyze_file(input.desc[1].path, data)
    /\ pc' = "answered"
    /\ UNCHANGED <<input, io, ole_stream, stream_data, queue, data, stats, extraction_log,
                   fs, success, frame, m3_offset, zip_pos, returned, reports, hist>>

FindBottlenecks ==
    /\ pc = "tools"
    /\ input.kind = "bottlenecks"
    /\ result' = wplog_find_bottlenecks(input.desc[1].path, data)
    /\ pc' = "answered"
    /\ UNCHANGED <<input, io, ole_stream, stream_data, queue, data, stats, extraction_log,
                   fs, success, frame, m3_offset, zip_pos, returned, reports, hist>>

NextTools == AnalyzeFile \/ FindBottlenecks

\* the files the tools are given: compound files (whole and damaged),
\* archives, and files that start with the other signatures
PrefixFiles ==
    {EmptyBuf, FromSeq(PkSig), FromSeq(GzipSig \o <<8>>), FromSeq(Bzip2Sig \o <<57>>),
     FromSeq(SevenZipSig), FromSeq(LzmaSig), FromSeq(<<1>> \o LzmaSig \o LzmaSig),
     FromSeq(GzipSig \o LzmaSig), FromSeq(<<120, 120>>),
     CatAll(<<FromSeq(LzmaSig), Zeros(LzmaSearchMax), FromSeq(LzmaSig \o LzmaSig)>>),
     CatAll(<<Zeros(LzmaHead - 2), FromSeq(LzmaSig)>>),
     CatAll(<<Zeros(LzmaHead - 3), FromSeq(LzmaSig)>>),
     Cat(FromSeq(OleMagic), FromSeq(IndicatorNames[1])),
     CatAll(<<FromSeq(OleMagic), Zeros(OleHeaderLen), FromSeq(IndicatorNames[2])>>)}

AnalyzedFiles ==
    {OleBytes(od) : od \in OleInputs} \cup {FileBytes(fd) : fd \in TailFiles} \cup PrefixFiles

ToolCalls ==
    {[tool |-> "analyze", path |-> "file", bytes |-> b] : b \in AnalyzedFiles}
    \cup {[tool |-> t, path |-> p, bytes |-> EmptyBuf] :
             t \in {"analyze", "bottlenecks"}, p \in {"missing", "dir"}}
    \cup {[tool |-> "bottlenecks", path |-> "file", bytes |-> EmptyBuf]}

InitTools ==
    \E tc \in ToolCalls :
        InitAt([kind |-> tc.tool, files |-> <<>>, desc |-> <<[path |-> tc.path]>>], "none",
               tc.bytes, "tools")

SpecTools == InitTools /\ [][NextTools]_vars

(***************************************************************************)
(* read_fat_chain on its own: the walk from a start sector through a FAT   *)
(* of one sector whose entries are indices of the table, the two reserved  *)
(* words, or an index beyond the table, so that chains that end, chains    *)
(* that leave the table and chains that run into a cycle all occur.        *)
(***************************************************************************)
WalkChain ==
    /\ pc = "fat"
    /\ result' = read_fat_chain(data, input.desc[1].start, input.desc[1].sector_size,
                                input.desc[1].fat_sectors)
    /\ pc' = "walked"
    /\ UNCHANGED <<input, io, ole_stream, stream_data, queue, data, stats, extraction_log,
                   fs, success, frame, m3_offset, zip_pos, returned, reports, hist>>

NextFat == WalkChain

MaxFatEntries == 3       \* entries of the FAT sector

\* the words a FAT entry or a start sector holds
FatWords ==
    {LE32(k) : k \in 0..MaxFatEntries} \cup {EndOfChain, FreeSect}

\* the header's FAT locators: sector 0; sector 0 after an unused locator;
\* sector 0 after a locator beyond the buffer; sector 0 named twice
FatLocators ==
    {<<LE32(0)>>, <<EndOfChain, LE32(0)>>, <<LE32(MaxFatEntries), LE32(0)>>,
     <<LE32(0), LE32(0)>>}

FatInputs ==
    {[entries |-> e, start |-> st, fat_sectors |-> fl, sector_size |-> 4 * MaxFatEntries] :
        e \in [1..MaxFatEntries -> FatWords], st \in FatWords, fl \in FatLocators}

\* the header followed by the FAT sector that holds the entries
FatFile(entries) ==
    Cat(Zeros(OleHeaderLen), CatAll([i \in 1..Len(entries) |-> FromSeq(entries[i])]))

InitFat ==
    \E fi \in FatInputs :
        InitAt([kind |-> "fat", files |-> <<>>, desc |-> <<fi>>], "none",
               FatFile(fi.entries), "fat")

SpecFat == InitFat /\ [][NextFat]_vars

(***************************************************************************)
(* Claims                                                                  *)
(***************************************************************************)
\* the file the current (or the last) call of process_file is about
CallIndex == Len(input.desc) - Len(queue)
CurDesc == input.desc[CallIndex]

LastHist == hist[Len(hist)]

\* the paths written below (or outside) output_path, with their contents
Written(f) == {<<p, f.files[p]>> : p \in DOMAIN f.files}

\* the file a plain name (no separator) is written to
PlainPath(name) == [abs |-> FALSE, comps |-> <<name>>]

\* the members of a body, as the files they are to become
ExpectedFiles(body) ==
    {<<PlainPath(NameOf(body[i], i)), FromSeq(ContentOf(body[i], i))>> : i \in 1..Len(body)}

\* an archive of well-formed members (distinct names, sizes in the local
\* header, store or deflate) and nothing else
WellFormedKinds == {"store", "deflate", "empty", "longname"}
IsWellFormedArchive(fd) ==
    /\ fd.wrap = "raw"
    /\ fd.tail = "none"
    /\ \A i \in 1..Len(fd.body) : fd.body[i] \in WellFormedKinds

\* every header of the archive passes the sanity bounds of the scan
WithinSanityBounds(fd) ==
    \A i \in 1..Len(fd.body) : Len(NameOf(fd.body[i], i)) <= MaxNameLen

\* the direct scan (the pass of extract_damaged_zip over the raw bytes) has
\* returned
DirectScanReturned == pc = "m3" /\ hist # <<>> /\ LastHist.strategy = 2

\* the pass that returned wrote every member of the body and reported success
PassExtractedAll(body) ==
    /\ LastHist.ret
    /\ LastHist.written = Len(body)
    /\ extracted_count = Len(body)
    /\ Written(fs) = ExpectedFiles(body)

\* C1 (as claimed): a pass of extract_damaged_zip over a buffer of K
\* well-formed members and no central directory writes exactly K files, each
\* with the member's bytes, and reports success.
C1_Original ==
    (DirectScanReturned /\ io # "write" /\ IsWellFormedArchive(CurDesc))
        => PassExtractedAll(CurDesc.body)

\* C1 (amended): the same for K >= 1 members whose headers pass the sanity
\* bounds of the scan (name of at most 1000 bytes, extra field of at most
\* 50000 bytes): the pass writes exactly K files, byte-identical to the
\* members, and reports success.
C1_WellFormedMembersExtracted ==
    (/\ DirectScanReturned
     /\ io # "write"
     /\ IsWellFormedArchive(CurDesc)
     /\ Len(CurDesc.body) >= 1
     /\ WithinSanityBounds(CurDesc))
        => PassExtractedAll(CurDesc.body)

\* C1 witness: the pass returned for an archive of two members, one stored
\* and one deflated, and both were written
C1_Witness ==
    /\ DirectScanReturned
    /\ CurDesc = Bare(<<"store", "deflate">>)
    /\ extracted_count = 2
    /\ FileCount(fs) = 2

\* exactly one member of the body is of one of the kinds, the others are
\* regular (well-formed, stored or deflated)
OneOfKinds(fd, kinds) ==
    /\ fd.wrap = "raw"
    /\ fd.tail = "none"
    /\ Cardinality({i \in 1..Len(fd.body) : fd.body[i] \in kinds}) = 1
    /\ \A i \in 1..Len(fd.body) : fd.body[i] \in kinds \cup RegularKinds

\* member i of the body is on disk, with its bytes
MemberWritten(body, i) ==
    <<PlainPath(NameOf(body[i], i)), FromSeq(ContentOf(body[i], i))>> \in Written(fs)

\* the kinds whose local header has a corrupted length, size or method field
CorruptKinds == {"namelen", "extralen", "compsize", "compshort", "method99", "baddeflate"}

\* C2 (as claimed): with one member's local header corrupted in a length,
\* size or method field, the pass still extracts every valid member, and its
\* count is lower by exactly 1 than without the corruption.
C2_Original ==
    (DirectScanReturned /\ io # "write" /\ OneOfKinds(CurDesc, CorruptKinds))
        => /\ \A i \in 1..Len(CurDesc.body) :
                  CurDesc.body[i] \in RegularKinds => MemberWritten(CurDesc.body, i)
           /\ LastHist.written = Len(CurDesc.body) - 1

\* the kinds whose declared CRC is nonzero and is not the CRC of their bytes
CrcMismatchKinds == {"badcrc", "emptybad"}

\* C3 (as claimed): a member whose declared nonzero CRC does not match its
\* bytes is still written and counted, and the call of process_file records
\* exactly one checksum mismatch for it.
C3_Original ==
    (/\ pc = "run"
     /\ input.kind = "file"
     /\ returned # <<>>
     /\ io = "none"
     /\ OneOfKinds(CurDesc, CrcMismatchKinds))
        => /\ \A i \in 1..Len(CurDesc.body) : MemberWritten(CurDesc.body, i)
           /\ returned[1]
           /\ stats.checksum_errors = 1

\* the strategies are attempted in the order 1, 2, 3, none is skipped
InFixedOrder ==
    /\ hist # <<>> => hist[1].strategy = 1
    /\ \A i \in 1..(Len(hist) - 1) :
           hist[i + 1].strategy \in {hist[i].strategy, hist[i].strategy + 1}

\* the strategy whose attempt is under way, or 0
RunningStrategy ==
    IF pc \in {"scan", "scanret"} THEN caller ELSE IF pc = "m3loop" THEN 3 ELSE 0

\* the strategies started so far in the call
Started == {hist[i].strategy : i \in 1..Len(hist)} \cup ({RunningStrategy} \ {0})

NoSignatureIn(d) == Find(d, LocalSig, 0) = -1
NoSignatureInStream(stream) ==
    stream.found => /\ NoSignatureIn(stream.bytes)
                    /\ NoSignatureIn(decompress_caseware_file(stream.bytes))
NoSignatureAnywhere(d) ==
    NoSignatureIn(d) /\ NoSignatureInStream(parse_ole_compound_document(d))

\* C5: for an input without a local header signature anywhere, process_file
\* attempts the three strategies and returns False, and the counters change
\* by processed +1, extracted +0, failed +1 (here: over every call so far,
\* each for such an input).
C5_NoSignatureFails ==
    (/\ pc = "run"
     /\ returned # <<>>
     /\ io \notin {"read", "mkdir"}
     /\ \A i \in 1..Len(returned) : NoSignatureAnywhere(input.files[i]))
        => /\ \A i \in 1..Len(returned) : ~returned[i]
           /\ stats.files_processed = Len(returned)
           /\ stats.files_extracted = 0
           /\ stats.files_failed = Len(returned)
           /\ {hist[i].strategy : i \in 1..Len(hist)} = {1, 2, 3}

\* C5 witness: process_file returned False for a buffer that is not empty and
\* holds no signature, after the three strategies, with the counters at 1, 0, 1
C5_Witness ==
    /\ pc = "run"
    /\ returned = <<FALSE>>
    /\ io = "none"
    /\ data.len > 0
    /\ {hist[i].strategy : i \in 1..Len(hist)} = {1, 2, 3}
    /\ stats.files_processed = 1
    /\ stats.files_failed = 1
    /\ NoSignatureAnywhere(data)

\* C6 (as claimed): process_file returns True only if at least one member
\* file was written in the call, and the structured-stream strategy never
\* reports success with zero members.
C6_Original ==
    /\ (pc = "run" /\ returned # <<>> /\ returned[Len(returned)]) => FileCount(fs) >= 1
    /\ \A i \in 1..Len(hist) : (hist[i].strategy = 1 /\ hist[i].ret) => hist[i].written >= 1

\* C7 (as claimed): the result of caseware_extract_file has success = true
\* only if files_extracted >= 1, and success = false otherwise.
C7_Original ==
    pc = "done" => (result.success <=> stats.files_extracted >= 1)

\* C8 (as claimed): no member file is written outside the output root.
C8_Original ==
    \A p \in DOMAIN fs.files : ~Escapes(p)

\* the compound file the readers were given
OleDesc == input.desc[1]

\* C9 (as claimed): for a valid compound file whose target stream has N
\* bytes, each reader returns exactly the N bytes of the stream: the sectors
\* of its FAT chain, contiguous or not, concatenated and cut to N.
C9_Original ==
    (pc = "streamed" /\ OleDesc.damage.how = "none" /\ OleDesc.layout \in {"contig", "frag"})
        => /\ ole_stream.bytes = StreamBytes(OleDesc.len)
           /\ stream_data.bytes = StreamBytes(OleDesc.len)
           /\ OleDesc.len > 0 => (ole_stream.found /\ stream_data.found)

\* the buffer is shorter than the header or does not start with the magic
NotCompoundFile(d) == d.len < OleHeaderLen \/ Slice(d, 0, Len(OleMagic)) # FromSeq(OleMagic)

\* C10: for a buffer shorter than 512 bytes, or whose first 8 bytes are not
\* the magic, both readers return None (NotFound).
C10_NotCompoundFileIsNone ==
    /\ (pc \in {"parsed", "streamed"} /\ NotCompoundFile(data)) => ole_stream = NotFound
    /\ (pc = "streamed" /\ NotCompoundFile(data)) => stream_data = NotFound

\* C10 witness: both readers have returned for a buffer of full length whose
\* magic is wrong and which holds the directory entry and a member
C10_Witness ==
    /\ pc = "streamed"
    /\ OleDesc.damage.how = "magic"
    /\ data.len >= OleHeaderLen
    /\ Find(data, LocalSig, 0) # -1
    /\ ole_stream = NotFound
    /\ stream_data = NotFound

\* where the stream of a contiguous file starts: sector 2
StreamOffset == OleHeaderLen + 2 * Pow2(SectorShift)

\* the file was cut inside the stream: the byte range the target entry
\* declares starts inside the buffer and ends beyond it
RangePastEnd ==
    /\ OleDesc.damage.how = "trim"
    /\ OleDesc.layout = "contig"
    /\ StreamOffset < data.len
    /\ StreamOffset + OleDesc.len > data.len

\* the bytes of the declared range that the buffer holds
AvailableBytes == Slice(data, StreamOffset, StreamOffset + OleDesc.len)

\* C11 (as claimed): when the byte range of the matching entry extends past
\* the end of the buffer, each reader returns the bytes of the range that
\* are available, not not-found.
C11_Original ==
    (pc = "streamed" /\ RangePastEnd)
        => /\ ole_stream = [found |-> TRUE, bytes |-> AvailableBytes]
           /\ stream_data = [found |-> TRUE, bytes |-> AvailableBytes]

\* C12 (as claimed): when the sector-size exponent of the header is 20 or
\* more, both readers return not-found, whatever the buffer holds.
C12_Original ==
    (pc = "streamed" /\ ~NotCompoundFile(data) /\ U16(data, 30) >= ShiftLimit)
        => /\ ole_stream = NotFound
           /\ stream_data = NotFound

\* the stream the codec was given, as described
CodecDesc == input.desc[1]

\* the payload decompress_caseware_file hands to the decoder is no LZMA2
\* stream: decoding raises
DecodingFails(d) ==
    ~LzmaDecompress(IF StartsWith(d, CaseWareMarker) THEN Slice(d, 12, d.len) ELSE d).ok

\* C13: when decoding fails, decompress_caseware_file returns exactly the
\* bytes it was given (with the 12-byte prefix when there is one), and the
\* input is as it was.
C13_FailureReturnsInput ==
    pc = "decoded" =>
        /\ DecodingFails(data) => pdata = data
        /\ data = CodecStream(CodecDesc.sample, Lzma2Chunks(CodecDesc.sample), CodecDesc.form)

\* C13 witness: decoding failed for an envelope whose payload is cut short,
\* and the whole envelope came back
C13_Witness ==
    /\ pc = "decoded"
    /\ CodecDesc.form = "markercut"
    /\ CodecDesc.sample.len > 0
    /\ DecodingFails(data)
    /\ pdata = data
    /\ pdata # Slice(data, 12, data.len)

\* C14: a byte sequence encoded with the envelope (12-byte prefix, then the
\* raw LZMA2 stream) and decoded with decompress_caseware_file is the byte
\* sequence again.
C14_RoundTrip ==
    (pc = "decoded" /\ CodecDesc.form = "marker") => pdata = CodecDesc.sample

\* C14 witness: a sequence of more than two chunks made the round trip
C14_Witness ==
    /\ pc = "decoded"
    /\ CodecDesc.form = "marker"
    /\ CodecDesc.sample.len > 2 * ChunkMax
    /\ data.len > CodecDesc.sample.len + 12
    /\ pdata = CodecDesc.sample

\* the passes of the signature-seek retry made so far in the call, in order
SeekPasses == SelectSeq(hist, LAMBDA h : h.strategy = 3 /\ h.what = "scan")

\* the offsets of the raw buffer that hold the local-header signature
Occurrences(d) == {p \in DOMAIN d.nz : MatchAt(d, p, LocalSig)}

\* the retry has ended
SeekEnded == pc \in {"finish", "run", "done"} /\ \E i \in 1..Len(hist) : hist[i].strategy = 3

\* C15: in the signature-seek retry the pass is run on the suffix of the raw
\* buffer at each occurrence of the signature, in strictly ascending order
\* of the offsets and with none skipped; it stops at the first occurrence
\* whose pass extracts a member, and tries every occurrence when none does.
C15_SeekAscending ==
    /\ pc # "scan" =>
           \A i \in 1..Len(SeekPasses) :
               /\ MatchAt(data, SeekPasses[i].base, LocalSig)
               /\ \A p \in Occurrences(data) :
                      p < SeekPasses[i].base => \E j \in 1..(i - 1) : SeekPasses[j].base = p
               /\ i < Len(SeekPasses) =>
                      /\ SeekPasses[i].base < SeekPasses[i + 1].base
                      /\ ~SeekPasses[i].ret
                      /\ SeekPasses[i].written = 0
               /\ SeekPasses[i].ret <=> SeekPasses[i].written >= 1
    /\ (pc \in {"scan", "scanret"} /\ caller = 3) =>
           /\ MatchAt(data, zip_pos, LocalSig)
           /\ pdata = Slice(data, zip_pos, data.len)
           /\ \A i \in 1..Len(SeekPasses) :
                  ~SeekPasses[i].ret /\ SeekPasses[i].base < zip_pos
    /\ (SeekEnded /\ (SeekPasses = <<>> \/ ~SeekPasses[Len(SeekPasses)].ret)) =>
           {SeekPasses[i].base : i \in 1..Len(SeekPasses)} = Occurrences(data)

\* C15 witness: of three occurrences the first failed, the second extracted,
\* and the third was not tried
C15_Witness ==
    /\ pc = "finish"
    /\ Cardinality(Occurrences(data)) = 3
    /\ Len(SeekPasses) = 2
    /\ ~SeekPasses[1].ret
    /\ SeekPasses[2].ret
    /\ SeekPasses[2].base > SeekPasses[1].base

\* the path the tool of server.py was called with
ToolPath == input.desc[1].path

\* C16: for an existing readable file caseware_analyze_file answers with
\* success = true and a file_type; for a file that begins with the
\* compound-file magic the file_type is 'OLE Compound Document' whatever
\* follows the magic.
C16_AnalyzeSucceeds ==
    (pc = "answered" /\ input.kind = "analyze" /\ ToolPath = "file")
        => /\ result.success
           /\ ~result.error
           /\ result.file_type # ""
           /\ StartsWith(data, OleMagic) => result.file_type = "OLE Compound Document"

\* C16 witness: a file of the magic and a few more bytes, shorter than the
\* header, was analysed
C16_Witness ==
    /\ pc = "answered"
    /\ input.kind = "analyze"
    /\ ToolPath = "file"
    /\ StartsWith(data, OleMagic)
    /\ data.len > Len(OleMagic)
    /\ data.len < OleHeaderLen
    /\ result.success
    /\ result.file_type = "OLE Compound Document"
    /\ ~result.ole_structure

\* C17: called with a path that does not exist, wplog_find_bottlenecks and
\* caseware_analyze_file answer with success = false and an 'error' entry.
C17_MissingPathFails ==
    (pc = "answered" /\ ToolPath = "missing") => (~result.success /\ result.error)

\* C17 witness: wplog_find_bottlenecks answered for a missing path
C17_Witness ==
    /\ pc = "answered"
    /\ input.kind = "bottlenecks"
    /\ ToolPath = "missing"
    /\ ~result.success
    /\ result.error

\* the loop of extract_damaged_zip is at a signature match whose header
\* fails the sanity bounds (name_len > 1000 or extra_len > 50000)
AtRejectedMatch ==
    /\ pc = "scan"
    /\ ScanCond(pdata, offset)
    /\ MatchAt(pdata, offset, LocalSig)
    /\ HeaderRejected(Header(pdata, offset))

\* the iteration wrote no file and counted no member
NothingWritten ==
    /\ fs' = fs
    /\ extracted_count' = extracted_count
    /\ stats' = stats
    /\ extraction_log' = extraction_log

\* C18 (as claimed): when a signature match has a filename length > 1000 or
\* an extra-field length > 50000, no file is written for it and the scan
\* resumes exactly one byte after the match position.
C18_Original ==
    [][AtRejectedMatch => (NothingWritten /\ pc' = "scan" /\ offset' = offset + 1)]_vars

\* C18 (amended): when a signature match has a filename length > 1000 or an
\* extra-field length > 50000, no file is written for it and the scan
\* resumes right after the signature of the match, 4 bytes after the match
\* position; none of the bytes passed over begins a signature match.
C18_RejectedMatchSkipped ==
    [][AtRejectedMatch =>
          /\ NothingWritten
          /\ pc' = "scan"
          /\ offset' = offset + Len(LocalSig)
          /\ \A k \in 1..(Len(LocalSig) - 1) : ~MatchAt(pdata, offset + k, LocalSig)]_vars

\* a match whose header fails the sanity bounds is at o
RejectedBefore(o) ==
    /\ o >= 0
    /\ MatchAt(pdata, o, LocalSig)
    /\ HeaderRejected(Header(pdata, o))

\* C18 witness: the direct scan has passed a match whose header declares an
\* extra field longer than 50000 bytes and is right after its signature;
\* nothing was written
C18_Witness ==
    /\ pc = "scan"
    /\ caller = 2
    /\ RejectedBefore(offset - Len(LocalSig))
    /\ Header(pdata, offset - Len(LocalSig)).extra_len > MaxExtraLen
    /\ extracted_count = 0
    /\ FileCount(fs) = 0

\* the ends of the filename and of the compressed payload that the header
\* at o declares
NameEnd(d, o) == o + HeaderLen + Header(d, o).name_len
DataEnd(d, o) == SatAdd(NameEnd(d, o) + Header(d, o).extra_len, Header(d, o).comp_size)

\* a signature match is at o whose header passes the sanity bounds and puts
\* the end of its filename or of its payload beyond the end of the buffer
TruncatedAt(d, o) ==
    /\ MatchAt(d, o, LocalSig)
    /\ ~HeaderRejected(Header(d, o))
    /\ (NameEnd(d, o) > d.len \/ DataEnd(d, o) > d.len)

\* the pass returns: what it reports to the strategy that called it
PassReports(ret, written) ==
    /\ hist' = Append(hist, [hist'[Len(hist')] EXCEPT !.ret = ret, !.written = written])
    /\ hist'[Len(hist')].what = "scan"
    /\ hist'[Len(hist')].strategy = caller

PathAt(d, o) == MemberPath(DecodeUtf8(Slice(d, o + HeaderLen, NameEnd(d, o))))

\* a signature match is at o whose header passes the sanity bounds and lies
\* within the buffer, and the write of its member raises: a parent of its
\* path cannot be made, the path cannot be opened for writing, or the
\* environment fails the write
RaisesAt(d, o, f, writeFault) ==
    /\ MatchAt(d, o, LocalSig)
    /\ ~HeaderRejected(Header(d, o))
    /\ NameEnd(d, o) <= d.len
    /\ DataEnd(d, o) <= d.len
    /\ (MkdirFails(f, PathAt(d, o)) \/ OpenFails(f, PathAt(d, o)) \/ writeFault)

\* the kinds of member whose write raises: an empty name (the path is the
\* output directory) and a name below the name of a file
RaisingKinds == {"noname", "nested"}

\* every well-formed stored or deflated member of the body is on disk
RegularMembersWritten(body) ==
    \A i \in 1..Len(body) : body[i] \in RegularKinds => MemberWritten(body, i)

\* the payload of the member whose header is at o
PayloadAt(d, o) == Slice(d, NameEnd(d, o) + Header(d, o).extra_len, DataEnd(d, o))

\* a signature match is at o whose header passes the sanity bounds and lies
\* within the buffer, and the inflation of its member raises
InflateRaisesAt(d, o) ==
    /\ MatchAt(d, o, LocalSig)
    /\ ~HeaderRejected(Header(d, o))
    /\ NameEnd(d, o) <= d.len
    /\ DataEnd(d, o) <= d.len
    /\ Header(d, o).method = MethodDeflate
    /\ ~Inflate(PayloadAt(d, o)).ok

\* the iteration has left the member uncounted and the cursor 4 bytes past
\* its signature position, and the scan goes on
MemberPassedOver ==
    /\ pc' = "scan"
    /\ offset' = offset + 4
    /\ extracted_count' = extracted_count

MemberAt(d, o) ==
    /\ MatchAt(d, o, LocalSig)
    /\ ~HeaderRejected(Header(d, o))
    /\ NameEnd(d, o) <= d.len
    /\ DataEnd(d, o) <= d.len

\* the resulting bytes of the member whose header is at o
FileDataAt(d, o) == Decompressed(Header(d, o).method, PayloadAt(d, o))

\* the iteration recorded exactly one checksum mismatch
MismatchRecorded ==
    /\ stats'.checksum_errors = stats.checksum_errors + 1
    /\ Len(extraction_log') > Len(extraction_log)
    /\ extraction_log'[Len(extraction_log) + 1].kind = "CHECKSUM_ERROR"

\* the iteration recorded no anomaly
NoAnomalyRecorded ==
    /\ stats' = stats
    /\ extraction_log' = extraction_log

\* C21 (as claimed): for every member whose declared CRC-32 is nonzero, the
\* CRC-32 of the resulting bytes is compared with the declared value before
\* the file is written, regardless of the length of the resulting data, so a
\* mismatch is recorded exactly when the two differ; members whose declared
\* CRC-32 is zero are not verified and record no anomaly.
C21_Original ==
    [][(pc = "scan" /\ ScanCond(pdata, offset) /\ MemberAt(pdata, offset))
          => IF Header(pdata, offset).crc32 # ZeroWord
                /\ Crc32(FileDataAt(pdata, offset)) # Header(pdata, offset).crc32
             THEN MismatchRecorded
             ELSE NoAnomalyRecorded]_vars

\* C22 (as claimed): within one call of process_file, across the three
\* strategies and every signature-seek iteration, the checksum of a member of
\* the input is verified at most once, so one member never contributes more
\* than one checksum-mismatch record: for an archive with one member whose
\* declared CRC-32 does not match, the call records at most one mismatch.
C22_Original ==
    (/\ pc = "run"
     /\ input.kind = "file"
     /\ returned # <<>>
     /\ OneOfKinds(CurDesc, {"badcrc"}))
        => stats.checksum_errors <= 1

\* the issue log holds an entry for the name
AnomalyRecordedFor(name) ==
    \E k \in 1..Len(extraction_log) : extraction_log[k].name = name

\* C23 (as claimed): a member whose method code is none of store (0),
\* deflate (8) or the proprietary code (14) is still extracted with its raw
\* compressed bytes as file content, an anomaly is recorded for it in the
\* issue log, and the pass continues with the following members.
C23_Original ==
    (DirectScanReturned /\ io = "none" /\ OneOfKinds(CurDesc, {"method99"}))
        => /\ \A i \in 1..Len(CurDesc.body) : MemberWritten(CurDesc.body, i)
           /\ LastHist.written = Len(CurDesc.body)
           /\ \A i \in 1..Len(CurDesc.body) :
                  CurDesc.body[i] = "method99"
                      => AnomalyRecordedFor(DecodeUtf8(FromSeq(NameOf("method99", i))))

\* the FAT the walk was given: the entries of the sectors that the locators
\* name, as numbers, in order (fat_table)
FatDesc == input.desc[1]
FatTableOf(fi) ==
    LET named == SelectSeq(fi.fat_sectors, LAMBDA w : w = LE32(0))
    IN  [k \in 1..(Len(named) * Len(fi.entries)) |->
            fi.entries[((k - 1) % Len(fi.entries)) + 1]]

\* sector c is an index of the table
ValidIndex(tbl, c) == c \in 0..(Len(tbl) - 1)

\* the word w lets the walk go on to a sector
Continues(tbl, w) ==
    /\ w \notin {EndOfChain, FreeSect}
    /\ ValidIndex(tbl, WordVal(w))

\* chain is the walk through tbl from the word start: it begins at the start
\* sector, each element is followed by its FAT entry, and it ends where the
\* next word is a reserved word or no index of the table (it is empty when
\* the start is), or names a sector already in the chain
IsWalk(chain, tbl, start) ==
    /\ \A i \in 1..Len(chain) : ValidIndex(tbl, chain[i])
    /\ \A i, j \in 1..Len(chain) : chain[i] = chain[j] => i = j
    /\ Len(chain) <= Len(tbl)
    /\ \A i \in 1..(Len(chain) - 1) : WordVal(tbl[chain[i] + 1]) = chain[i + 1]
    /\ IF chain = <<>> THEN ~Continues(tbl, start)
       ELSE /\ chain[1] = WordVal(start)
            /\ start # EndOfChain
            /\ LET last == tbl[chain[Len(chain)] + 1]
               IN  \/ ~Continues(tbl, last)
                   \/ \E i \in 1..Len(chain) : chain[i] = WordVal(last)

\* C24: for every FAT content and start sector (cyclic and self-referencing
\* FATs included), read_fat_chain terminates and returns a chain with no
\* repeated sector in which every element is a valid FAT index, of length at
\* most the number of FAT entries; the walk stops at the end-of-chain marker
\* (or a word that is no index of the table) or at the first sector it would
\* revisit.
C24_ChainBounded ==
    pc = "walked" => IsWalk(result, FatTableOf(FatDesc), FatDesc.start)

\* C24 witness: a walk that ran from its start sector into a cycle of the
\* other sectors returned every sector of the FAT once and stopped at the
\* sector it would revisit, the second of the chain
C24_Witness ==
    /\ pc = "walked"
    /\ FatDesc.fat_sectors = <<LE32(0)>>
    /\ Len(result) = MaxFatEntries
    /\ Len(result) > 1
    /\ WordVal(FatTableOf(FatDesc)[result[Len(result)] + 1]) = result[2]

\* the sectors of the directory of file d: the chain through the FAT from the
\* header's first directory sector
DirectoryChain(d) ==
    read_fat_chain(d, Word(d, 48), Pow2(U16(d, 30)), FatSectors(d))

\* the offsets of the entries that are the target stream's, in the first
\* MaxDirSectors sectors of the directory chain
ChainedTargetEntries(d) ==
    LET chain == DirectoryChain(d)
        ss    == Pow2(U16(d, 30))
    IN  {OleHeaderLen + chain[i] * ss + e * DirEntryLen :
            i \in 1..Min(Len(chain), MaxDirSectors), e \in 0..((ss \div DirEntryLen) - 1)}
        \cap {p \in DOMAIN d.nz : IsTargetEntry(d, p)}

\* C25 (as claimed): the readers locate directory entries by following the
\* directory's sector chain through the FAT from the header's first
\* directory sector, over at most 10 sectors: a matching stream entry in any
\* of those chained sectors, contiguous in the file or not, is found.
C25_Original ==
    (/\ pc = "streamed"
     /\ OleDesc.damage.how = "none"
     /\ OleDesc.len > 0
     /\ ChainedTargetEntries(data) # {})
        => /\ ole_stream.found
           /\ StandardOleStream(data).found

\* the calls of process_file made so far all returned False
AllReturnedFalse == \A i \in 1..Len(returned) : ~returned[i]

MismatchEntries(r) ==
    Cardinality({j \in 1..Len(r.entries) : r.entries[j].kind = "CHECKSUM_ERROR"})

\* C27 (as claimed): in a batch processed by one extractor, the issue report
\* written for an archive reflects only that archive: the checksum-error
\* count written in it counts the mismatches recorded while that archive was
\* processed (the entries of its log), never those of archives processed
\* earlier, and it counts no checksum warning of another archive.
C27_Original ==
    (input.kind = "dir" /\ io = "none")
        => \A k \in 1..Len(reports) :
               /\ reports[k].checksum_errors = MismatchEntries(reports[k])
               /\ reports[k].checksum_warnings = 0

\* C28: extract_damaged_zip terminates on every finite buffer: the scan
\* cursor strictly increases on every loop iteration (by 1, by 4, or to the
\* end of the consumed member) and stays within the buffer, so each offset is
\* examined as a header start at most once per pass; the signature-seek loop
\* of process_file likewise strictly advances; and the run of the tool ends.
C28_ScanTerminates ==
    /\ [][/\ (pc = "scan" /\ pc' = "scan")
              => /\ offset' > offset
                 /\ offset' <= pdata.len
                 /\ \/ offset' = offset + 1 /\ ~MatchAt(pdata, offset, LocalSig)
                    \/ offset' = offset + 4 /\ MatchAt(pdata, offset, LocalSig)
                    \/ offset' = DataEnd(pdata, offset) /\ MemberAt(pdata, offset)
          /\ (pc = "scan" /\ pc' # "scan") => offset' = offset
          /\ (pc' = "m3loop" /\ pc # "m3")
              => (m3_offset' > m3_offset /\ m3_offset' <= data.len)]_vars
    /\ <>(pc = "done")

\* C28 witness: the signature-seek loop is at its second search, after a pass
\* over the suffix at the first match that ran to the end of the buffer by
\* steps of 1 and of 4 bytes and extracted nothing
C28_Witness ==
    /\ pc = "m3loop"
    /\ m3_offset > 0
    /\ hist # <<>>
    /\ LastHist.strategy = 3
    /\ ~LastHist.ret
    /\ ~ScanCond(pdata, offset)
    /\ offset > 4

\* the first position from o on that the scan examines as a header: the
\* first signature match within the loop's range, or -1
NextExamined(d, o) ==
    LET hits == {p \in DOMAIN d.nz : p >= o /\ ScanCond(d, p) /\ MatchAt(d, p, LocalSig)}
    IN  IF hits = {} THEN -1 ELSE CHOOSE p \in hits : \A q \in hits : p <= q

\* C29: advancing the cursor by 4 bytes after a rejected header or an
\* exception of a member never passes over the start of another signature:
\* the signature position examined next is the one a 1-byte advance would
\* have led to.
C29_AdvancePassesNoSignature ==
    [][(/\ pc = "scan"
        /\ ScanCond(pdata, offset)
        /\ \/ AtRejectedMatch
           \/ RaisesAt(pdata, offset, fs, io = "write"))
          => /\ pc' = "scan"
             /\ NextExamined(pdata, offset') = NextExamined(pdata, offset + 1)
             /\ \A p \in (offset + 1)..(offset' - 1) : ~MatchAt(pdata, p, LocalSig)]_vars

\* C29 witness: the scan rejected the header at a signature that is followed
\* at once by the signature of a member, examined that member next and
\* extracted it
C29_Witness ==
    /\ pc = "scan"
    /\ CurDesc.wrap = "sig"
    /\ RejectedBefore(0)
    /\ MatchAt(pdata, Len(LocalSig), LocalSig)
    /\ extracted_count = 1
    /\ offset = Len(LocalSig) + LocalMember(MemberOf("oversize", 1)).len

\* C30 (as claimed): after any sequence of calls of process_file on one
\* extractor, calls that fail on I/O included, files_processed =
\* files_extracted + files_failed: every archive is counted exactly once, as
\* extracted or as failed.
C30_Original ==
    pc \in {"run", "done"}
        => stats.files_processed = stats.files_extracted + stats.files_failed

====
